---- MODULE Spec2Model ----
(***************************************************************************)
(* Model of the OCPI node's command coordinator (receive_command and the   *)
(* background task send_command_result), of the push dispatcher            *)
(* (push_object, send_push_request), of the URL builder client_url, of    *)
(* the authenticator and the verifiers that read the token of a request,  *)
(* of the discovery endpoints behind the exception middleware, of the     *)
(* endpoint directory that get_application builds, and of the credentials *)
(* handshake.                                                              *)
(***************************************************************************)
EXTENDS Integers, Sequences, FiniteSets, TLC

\* ------------------------------------------------------------------ bounds
\* Number of commands (CommandContexts) received by the node.
MaxCmds == 1
\* settings.COMMAND_AWAIT_TIME, the deployment's await-time multiplier.
COMMAND_AWAIT_TIME == 1

\* Largest number of receivers in one Push.
MaxReceivers == 2

Cmds == 1..MaxCmds

\* ------------------------------------------------------- program constants
OCPI_1000_GENERIC_SUCESS_CODE == 1000
OCPI_2003_UNKNOWN_LOCATION == 2003
OCPI_3000_GENERIC_SERVER_ERROR == 3000
HTTP_200_OK == 200
HTTP_422_UNPROCESSABLE_ENTITY == 422

\* range(30 * settings.COMMAND_AWAIT_TIME)
PollBudget == 30 * COMMAND_AWAIT_TIME

\* CommandType of the 2.1.1 commands module.
CommandType == {"RESERVE_NOW", "START_SESSION", "STOP_SESSION", "UNLOCK_CONNECTOR"}

\* hasattr(command_data, "location_id"): every command object but StopSession
\* carries a location_id.
HasLocationId(command) == command # "STOP_SESSION"

\* Python truthiness of what crud.get / crud.do hand back: None and the empty
\* dict are falsy, a filled dict is truthy.
Truthy(v) == v \notin {"None", "Empty"}

\* What crud.get(ModuleID.locations, ...) can do.
LocationOutcomes == {"Found", "None", "Empty", "NotFoundOCPIError"}
\* What crud.do(Action.send_command) can return: nothing, or {"result": r}.
DispatchOutcomes == {"None", "ACCEPTED", "REJECTED", "NOT_SUPPORTED"}
\* What crud.get(ModuleID.commands, 0, ...) can return on one poll attempt.
PollOutcomes == {"None", "Empty", "ACCEPTED", "FAILED"}
\* get_auth_token: the request's token, or None for the header value 'Null'.
AuthTokens == {"None", "token_c"}
\* What client.post(response_url) can do.
PostOutcomes == {"2xx", "non2xx", "TransportError"}

VARIABLES
    pc,                 \* per command: where its handler / background task stands
    request_auth_token, \* per command: what get_auth_token(request) gave the handler
    location_lookup,    \* per command: what crud.get on locations did when it did not resolve the location_id, else "Resolvable"
    dispatch_result,    \* per command: what crud.do(Action.send_command) returned, "NotCalled" if not called
    http_response,      \* per command: the response receive_command returned
    background_tasks,   \* per command: send_command_result tasks added
    client_auth_token,  \* per command: result of crud.do(Action.get_client_token)
    command_result,     \* per command: the task's local command_result
    i,                  \* per command: iterations of the poll loop completed
    poll_calls,         \* per command: calls of crud.get(ModuleID.commands)
    sleep_calls,        \* per command: calls of sleep(2)
    posted              \* per command: sequence of bodies POSTed to response_url

cmdVars == <<pc, request_auth_token, location_lookup, dispatch_result, http_response, background_tasks,
             client_auth_token, command_result, i, poll_calls, sleep_calls, posted>>

VARIABLES
    push_pc,            \* push_object: "idle", "loop", "returned" or "raised"
    push_args,          \* push_object: its arguments, push.receivers as their auth_tokens
    k,                  \* push_object: receivers of push.receivers already processed
    receiver_responses, \* push_object: the list of ReceiverResponse built so far
    requests,           \* push_object: outbound HTTP requests and storage reads, in order
    discovery,          \* push_object: the receiver last processed, what its first GET
                        \* gave (response_data), and its `endpoints` when obtained
    raised              \* push_object: the exception that left it, "None" if none

pushVars == <<push_pc, push_args, k, receiver_responses, requests, discovery, raised>>

VARIABLES
    url_pc,             \* client_url: "call" or "returned"
    url_args,           \* client_url: its arguments
    url                 \* client_url: its return value

urlVars == <<url_pc, url_args, url>>

VARIABLES
    auth_pc,            \* authentication: "idle" or "returned"
    settings,           \* settings.NO_AUTH and settings.VERSIONS_REQUIRE_AUTH
    authenticator,      \* what get_valid_token_c and get_valid_token_a return
    auth_call,          \* the method called, with its version and its argument
    auth_result,        \* what it returned or raised, and the authenticate calls made
    app_response        \* a request to the application: what the client receives

authVars == <<auth_pc, settings, authenticator, auth_call, auth_result, app_response>>

\* ------------------------------------------------ get_application: routers
VARIABLES
    app_pc,             \* get_application: "init", "started" or "raised"
    app_args,           \* get_application: version_numbers, roles, modules
    version_endpoints,  \* get_application: the dict that get_endpoints returns
    routes,             \* get_application: routers included, as <<role, version, module>>
    served              \* the endpoint lists that GET /2.3.0/details has returned

appVars == <<app_pc, app_args, version_endpoints, routes, served>>

VARIABLES
    handshake_pc,       \* per handshake: "idle", "versions", "details", "record", "done" or "failed"
    registered,         \* per handshake: whether it found the party registered when it began
    registrations       \* the PartnerRegistrations of the party in the storage, as the handshakes that wrote them

credVars == <<handshake_pc, registered, registrations>>

vars == <<cmdVars, pushVars, urlVars, authVars, appVars, credVars>>

\* Handshakes of one party.
MaxHandshakes == 3
Handshakes == 1..MaxHandshakes

IdleCred ==
    /\ handshake_pc = [h \in Handshakes |-> "idle"]
    /\ registered = [h \in Handshakes |-> FALSE]
    /\ registrations = <<>>

\* Longest list of modules an application is started with.
MaxModules == 3

RoleEnum == {"cpo", "emsp", "ptp"}

\* The router tables of a version, each as the modules it has a router for.
v_2_3_0_cpo_router ==
    {"locations", "credentials", "sessions", "commands", "tariffs", "tokens", "cdrs",
     "hubclientinfo", "chargingprofiles", "payments"}
v_2_3_0_emsp_router ==
    {"locations", "credentials", "sessions", "commands", "tariffs", "tokens", "cdrs",
     "hubclientinfo", "chargingprofiles", "bookings", "payments"}
v_2_3_0_ptp_router == {"payments"}
v_2_1_1_cpo_router ==
    {"locations", "credentials", "cdrs", "tariffs", "sessions", "tokens", "commands"}
v_2_1_1_emsp_router ==
    {"locations", "credentials", "cdrs", "tariffs", "sessions", "tokens", "commands"}

\* ROUTERS.get(version): a version without routers gives None. 2.1.1 has no
\* "ptp_router" key, for which .get("ptp_router", {}) gives the empty dict.
ROUTERS(version) ==
    CASE version = <<2, 3, 0>> ->
             [found |-> TRUE, cpo |-> v_2_3_0_cpo_router, emsp |-> v_2_3_0_emsp_router,
              ptp |-> v_2_3_0_ptp_router]
      [] version = <<2, 1, 1>> ->
             [found |-> TRUE, cpo |-> v_2_1_1_cpo_router, emsp |-> v_2_1_1_emsp_router,
              ptp |-> {}]
      [] OTHER -> [found |-> FALSE, cpo |-> {}, emsp |-> {}, ptp |-> {}]

\* Endpoint(identifier=module, url=format_url(version, role, module))
generate_endpoint(version, role, module) ==
    [identifier |-> module, url |-> <<"ocpi", role, version, module>>]

\* ENDPOINTS[version][role].get(module): the endpoint generated for a module
\* of the CPO or the EMSP interface, None for any other module.
ENDPOINTS(version, role, module) ==
    IF role \in {"cpo", "emsp"} /\ module \in ROUTERS(version)[role]
    THEN <<generate_endpoint(version, role, module)>>
    ELSE <<>>

\* `for module in modules:` of one role: what is appended to
\* version_endpoints[version].
RECURSIVE role_endpoints(_, _, _)
role_endpoints(version, role, modules) ==
    IF modules = <<>> THEN <<>>
    ELSE (IF Head(modules) \in ROUTERS(version)[role]
          THEN ENDPOINTS(version, role, Head(modules))
          ELSE <<>>) \o role_endpoints(version, role, Tail(modules))

\* One iteration of `for version in version_numbers:`: the list of the
\* version. The PTP block includes routers and appends no endpoint.
endpoints_of_version(version, roles, modules) ==
    (IF "cpo" \in roles THEN role_endpoints(version, "cpo", modules) ELSE <<>>)
        \o (IF "emsp" \in roles THEN role_endpoints(version, "emsp", modules) ELSE <<>>)

\* The routers that one iteration includes.
routers_of_version(version, roles, modules) ==
    {route \in {<<role, version, modules[j]>> : role \in roles, j \in 1..Len(modules)} :
         route[3] \in ROUTERS(version)[route[1]]}

Elements(list) == {list[j] : j \in 1..Len(list)}

\* The application as get_application returns it, or ValueError.
application(version_numbers, roles, modules) ==
    IF \E version \in Elements(version_numbers) : ~ROUTERS(version).found
    THEN [raised |-> "ValueError", version_endpoints |-> <<>>, routes |-> {}]
    ELSE [raised |-> "None",
          version_endpoints |->
              [version \in Elements(version_numbers) |->
                   endpoints_of_version(version, roles, modules)],
          routes |-> UNION {routers_of_version(version, roles, modules) :
                                version \in Elements(version_numbers)}]

\* An application of version 2.3.0 started for the CPO role with locations.
IdleApp ==
    /\ app_pc = "started"
    /\ app_args = [version_numbers |-> <<<<2, 3, 0>>>>, roles |-> {"cpo"},
                   modules |-> <<"locations">>]
    /\ version_endpoints = application(<<<<2, 3, 0>>>>, {"cpo"}, <<"locations">>).version_endpoints
    /\ routes = application(<<<<2, 3, 0>>>>, {"cpo"}, <<"locations">>).routes
    /\ served = {}


NoResponse == [kind |-> "None"]

\* OCPIResponse(data=[command_response], **status): always HTTP 200.
OCPIResponse(result, status_code) ==
    [kind |-> "OCPIResponse", http |-> HTTP_200_OK,
     status_code |-> status_code, result |-> result]

\* JSONResponse(status_code=422, content={"detail": ...})
ValidationErrorResponse ==
    [kind |-> "JSONResponse", http |-> HTTP_422_UNPROCESSABLE_ENTITY]

\* adapter.command_response_adapter: hands the result on unchanged.
command_response_adapter(result) == result

\* No command has been received.
IdleCmd ==
    /\ pc = [c \in Cmds |-> "idle"]
    /\ request_auth_token = [c \in Cmds |-> "None"]
    /\ location_lookup = [c \in Cmds |-> "Resolvable"]
    /\ dispatch_result = [c \in Cmds |-> "NotCalled"]
    /\ http_response = [c \in Cmds |-> NoResponse]
    /\ background_tasks = [c \in Cmds |-> 0]
    /\ client_auth_token = [c \in Cmds |-> "None"]
    /\ command_result = [c \in Cmds |-> "None"]
    /\ i = [c \in Cmds |-> 0]
    /\ poll_calls = [c \in Cmds |-> 0]
    /\ sleep_calls = [c \in Cmds |-> 0]
    /\ posted = [c \in Cmds |-> <<>>]

\* An optional argument: None, or a value.
NoneStr == [is_none |-> TRUE, value |-> <<>>]
Some(str) == [is_none |-> FALSE, value |-> str]

\* No receiver has been processed.
NoDiscovery == [receiver |-> 0, shape |-> "None", found |-> FALSE, endpoints |-> <<>>]

\* push_object has not been called.
IdlePush ==
    /\ push_pc = "idle"
    /\ push_args = [version |-> <<2, 1, 1>>, module_id |-> "locations",
                    use_patch |-> FALSE, partial_data |-> NoneStr, crud |-> TRUE,
                    receivers |-> <<>>, n |-> 0]
    /\ k = 0
    /\ receiver_responses = <<>>
    /\ requests = <<>>
    /\ discovery = NoDiscovery
    /\ raised = "None"

\* client_url has not been called.
IdleUrl ==
    /\ url_pc = "idle"
    /\ url_args = [module_id |-> "locations", object_id |-> <<>>, base_url |-> <<>>,
                   evse_uid |-> NoneStr, connector_id |-> NoneStr]
    /\ url = <<>>

\* No method of the authenticator or of a verifier has been called.
NoCall == [op |-> "None", version |-> <<2, 1, 1>>, value |-> NoneStr]
NoResult == [returned |-> "NotReturned", token |-> <<>>, raised |-> "None", calls |-> <<>>]

\* No request has been answered.
NoAppResponse ==
    [http |-> 0, status_code |-> 0, data |-> "None", endpoints |-> <<>>,
     content |-> "None", escaped |-> "None"]

IdleAuth ==
    /\ auth_pc = "idle"
    /\ settings = [NO_AUTH |-> FALSE, VERSIONS_REQUIRE_AUTH |-> TRUE]
    /\ authenticator = [token_c |-> {}, token_a |-> {}]
    /\ auth_call = NoCall
    /\ auth_result = NoResult
    /\ app_response = NoAppResponse

InitCmd == IdleCmd /\ IdlePush /\ IdleUrl /\ IdleAuth /\ IdleApp /\ IdleCred

\* What the storage showed for the command's location_id: the outcome of
\* crud.get(ModuleID.locations) when the handler validated the body, the command
\* has a location_id and the lookup did not find it; "Resolvable" otherwise.
lookup(command, valid, loc) ==
    IF valid /\ HasLocationId(command) /\ loc # "Found" THEN loc ELSE "Resolvable"

\* Mutant: only a raised NotFoundOCPIError counts, an empty lookup passes.
location_missing_only_raise(command, loc) ==
    HasLocationId(command) /\ loc = "NotFoundOCPIError"

\* The location check: crud.get raised NotFoundOCPIError, or `not location`.
location_missing(command, loc) ==
    HasLocationId(command) /\ (loc = "NotFoundOCPIError" \/ ~Truthy(loc))

\* Mutant: the task is added for every dispatch result.
add_task_any_result(disp, auth_token) == auth_token # "None"

\* Mutant: the task is added for ACCEPTED whatever the token.
add_task_without_token(disp, auth_token) == disp = "ACCEPTED"

\* background_tasks.add_task is reached only for result ACCEPTED and a token.
add_task(disp, auth_token) == disp = "ACCEPTED" /\ auth_token # "None"

\* The outcome of the handler receive_command for one request:
\* what it answers, what the dispatch returned, and whether it added the background task.
receive_command_outcome(command, valid, loc, disp, auth_token) ==
    IF ~valid
    THEN [response |-> ValidationErrorResponse, dispatch |-> "NotCalled", add_task |-> FALSE]
    ELSE IF location_missing(command, loc)
    THEN [response |-> OCPIResponse("REJECTED", OCPI_2003_UNKNOWN_LOCATION),
          dispatch |-> "NotCalled", add_task |-> FALSE]
    ELSE IF Truthy(disp)
    THEN [response |-> OCPIResponse(command_response_adapter(disp),
                                    OCPI_1000_GENERIC_SUCESS_CODE),
          dispatch |-> disp,
          add_task |-> add_task(disp, auth_token)]
    ELSE [response |-> OCPIResponse("REJECTED", OCPI_3000_GENERIC_SERVER_ERROR),
          dispatch |-> disp, add_task |-> FALSE]

\* Mutant: the handler awaits send_command_result instead of adding a task, so
\* no response is out while the task runs.
returned_response_awaiting(out) ==
    IF out.add_task THEN NoResponse ELSE out.response

\* The handler returns its response right after add_task.
returned_response(out) == out.response

\* POST /commands/{command}: the whole handler, up to the returned response.
receive_command(c) ==
    /\ pc[c] = "idle"
    /\ \E command \in CommandType, valid \in BOOLEAN, loc \in LocationOutcomes,
          disp \in DispatchOutcomes, auth_token \in AuthTokens :
         LET out == receive_command_outcome(command, valid, loc, disp, auth_token) IN
         /\ request_auth_token' = [request_auth_token EXCEPT ![c] = auth_token]
         /\ location_lookup' = [location_lookup EXCEPT ![c] = lookup(command, valid, loc)]
         /\ dispatch_result' = [dispatch_result EXCEPT ![c] = out.dispatch]
         /\ http_response' = [http_response EXCEPT ![c] = returned_response(out)]
         /\ background_tasks' = [background_tasks EXCEPT
                                   ![c] = IF out.add_task THEN @ + 1 ELSE @]
         /\ pc' = [pc EXCEPT ![c] = IF out.add_task THEN "scheduled" ELSE "returned"]
    /\ UNCHANGED <<client_auth_token, command_result, i, poll_calls, sleep_calls, posted>>
    /\ UNCHANGED <<pushVars, urlVars, authVars, appVars, credVars>>

\* Mutant: one iteration too many.
loop_next_off_by_one(done) == IF done <= PollBudget THEN "poll" ELSE "deliver"

\* Where the for loop stands after `done` completed iterations.
loop_next(done) == IF done < PollBudget THEN "poll" ELSE "deliver"

\* send_command_result, first step: crud.do(get_client_token), then
\* command_result = None and entry into the for loop.
get_client_token(c) ==
    /\ pc[c] = "scheduled"
    /\ client_auth_token' = [client_auth_token EXCEPT ![c] = "client_token"]
    /\ command_result' = [command_result EXCEPT ![c] = "None"]
    /\ i' = [i EXCEPT ![c] = 0]
    /\ pc' = [pc EXCEPT ![c] = loop_next(0)]
    /\ UNCHANGED <<request_auth_token, location_lookup, dispatch_result, http_response, background_tasks,
                   poll_calls, sleep_calls, posted>>
    /\ UNCHANGED <<pushVars, urlVars, authVars, appVars, credVars>>

\* The CommandResponse built after the loop.
command_response(result) ==
    IF ~Truthy(result) THEN "TIMEOUT" ELSE command_response_adapter(result)

\* The body and header of one POST to response_url.
post_request(c) ==
    [result |-> command_response(command_result[c]),
     authorization |-> <<"Token ", client_auth_token[c]>>]

\* Mutant: a result does not break the loop.
poll_without_break(c) ==
    /\ pc[c] = "poll"
    /\ \E r \in PollOutcomes :
         command_result' = [command_result EXCEPT ![c] = r]
    /\ pc' = [pc EXCEPT ![c] = "sleep"]
    /\ poll_calls' = [poll_calls EXCEPT ![c] = @ + 1]
    /\ UNCHANGED <<request_auth_token, location_lookup, dispatch_result, http_response,
                   background_tasks, client_auth_token, i, sleep_calls, posted>>
    /\ UNCHANGED <<pushVars, urlVars, authVars, appVars, credVars>>

\* Mutant: the result is POSTed inside the loop and the loop goes on.
poll_post_in_loop(c) ==
    /\ pc[c] = "poll"
    /\ \E r \in PollOutcomes :
         /\ command_result' = [command_result EXCEPT ![c] = r]
         /\ posted' = [posted EXCEPT ![c] =
                         IF Truthy(r) /\ @ = <<>>
                         THEN <<[result |-> command_response_adapter(r),
                                 authorization |-> <<"Token ", client_auth_token[c]>>]>>
                         ELSE @]
    /\ pc' = [pc EXCEPT ![c] = "sleep"]
    /\ poll_calls' = [poll_calls EXCEPT ![c] = @ + 1]
    /\ UNCHANGED <<request_auth_token, location_lookup, dispatch_result, http_response, background_tasks,
                   client_auth_token, i, sleep_calls>>
    /\ UNCHANGED <<pushVars, urlVars, authVars, appVars, credVars>>

\* One poll attempt: crud.get(ModuleID.commands, RoleEnum.cpo, 0, ...);
\* a truthy result breaks out of the loop.
poll(c) ==
    /\ pc[c] = "poll"
    /\ \E r \in PollOutcomes :
         /\ command_result' = [command_result EXCEPT ![c] = r]
         /\ pc' = [pc EXCEPT ![c] = IF Truthy(r) THEN "deliver" ELSE "sleep"]
    /\ poll_calls' = [poll_calls EXCEPT ![c] = @ + 1]
    /\ UNCHANGED <<request_auth_token, location_lookup, dispatch_result, http_response, background_tasks,
                   client_auth_token, i, sleep_calls, posted>>
    /\ UNCHANGED <<pushVars, urlVars, authVars, appVars, credVars>>

\* await sleep(2), which ends the iteration.
sleep(c) ==
    /\ pc[c] = "sleep"
    /\ sleep_calls' = [sleep_calls EXCEPT ![c] = @ + 1]
    /\ i' = [i EXCEPT ![c] = @ + 1]
    /\ pc' = [pc EXCEPT ![c] = loop_next(i[c] + 1)]
    /\ UNCHANGED <<request_auth_token, location_lookup, dispatch_result, http_response, background_tasks,
                   client_auth_token, command_result, poll_calls, posted>>
    /\ UNCHANGED <<pushVars, urlVars, authVars, appVars, credVars>>

\* Mutant: a POST answered with an error is sent a second time.
delivery_with_retry(c, outcome) ==
    IF outcome = "2xx" THEN <<post_request(c)>>
    ELSE <<post_request(c), post_request(c)>>

\* Mutant: nothing is POSTed when the budget ran out.
delivery_skips_timeout(c, outcome) ==
    IF Truthy(command_result[c]) THEN <<post_request(c)>> ELSE <<>>

\* The requests the delivery step sends: one client.post, whatever it answers.
delivery(c, outcome) == <<post_request(c)>>

\* The delivery step: one client.post(response_url); a transport error
\* propagates out of the task, any status code is only logged.
deliver(c) ==
    /\ pc[c] = "deliver"
    /\ \E outcome \in PostOutcomes :
         /\ posted' = [posted EXCEPT ![c] = @ \o delivery(c, outcome)]
         /\ pc' = [pc EXCEPT
                     ![c] = IF outcome = "TransportError" THEN "failed" ELSE "done"]
    /\ UNCHANGED <<request_auth_token, location_lookup, dispatch_result, http_response, background_tasks,
                   client_auth_token, command_result, i, poll_calls, sleep_calls>>
    /\ UNCHANGED <<pushVars, urlVars, authVars, appVars, credVars>>

NextCmd ==
    \E c \in Cmds :
        \/ receive_command(c)
        \/ get_client_token(c)
        \/ poll(c)
        \/ sleep(c)
        \/ deliver(c)

SpecCommands == InitCmd /\ [][NextCmd]_vars

\* The background task is an asyncio task: each of its steps is taken once it
\* is enabled (every storage call, sleep and POST returns or raises).
FairSpecCommands ==
    /\ SpecCommands
    /\ \A c \in Cmds :
         /\ WF_vars(get_client_token(c))
         /\ WF_vars(poll(c))
         /\ WF_vars(sleep(c))
         /\ WF_vars(deliver(c))

\* ------------------------------------------------------------ observations
dispatch_calls(c) == IF dispatch_result[c] = "NotCalled" THEN 0 ELSE 1
post_calls(c) == Len(posted[c])
TaskEnded(c) == pc[c] \in {"done", "failed"}
LoopEnded(c) == pc[c] \in {"deliver", "done", "failed"}

\* ------------------------------------------------- claims on the commands
\* C1: for every received command at most one CommandResult is ever POSTed to
\* its response_url, whether the loop ended with a result or ran out of budget,
\* and nothing outside the delivery step of its one background task posts.
C1_AtMostOnePost ==
    \A c \in Cmds :
        /\ post_calls(c) <= 1
        /\ background_tasks[c] <= 1
        /\ post_calls(c) = 1 => background_tasks[c] = 1 /\ TaskEnded(c)

C1_Witness ==
    \E c \in Cmds : pc[c] = "done" /\ post_calls(c) = 1 /\ Truthy(command_result[c])

C3_ExactBudgetThenTimeout ==
    \A c \in Cmds :
        /\ poll_calls[c] <= 30 * COMMAND_AWAIT_TIME
        /\ (LoopEnded(c) /\ ~Truthy(command_result[c])) =>
               poll_calls[c] = 30 * COMMAND_AWAIT_TIME
        /\ (TaskEnded(c) /\ ~Truthy(command_result[c])) =>
               /\ post_calls(c) = 1
               /\ posted[c][1].result = "TIMEOUT"

C3_Witness ==
    \E c \in Cmds :
        /\ pc[c] = "done"
        /\ ~Truthy(command_result[c])
        /\ poll_calls[c] = 30 * COMMAND_AWAIT_TIME
        /\ posted[c][1].result = "TIMEOUT"

\* C4: a dispatch result other than ACCEPTED is returned to the sender and is
\* never followed by a poll attempt or a delivery POST; a poll attempt happens
\* only for a command whose dispatch result was ACCEPTED.
C4_PollOnlyAfterAccepted ==
    \A c \in Cmds :
        /\ (dispatch_result[c] \notin {"NotCalled", "None", "ACCEPTED"}) =>
               /\ http_response[c].kind = "OCPIResponse"
               /\ http_response[c].result = dispatch_result[c]
               /\ pc[c] = "returned"
               /\ background_tasks[c] = 0
               /\ poll_calls[c] = 0
               /\ post_calls(c) = 0
        /\ (dispatch_result[c] = "None") =>
               /\ http_response[c] = OCPIResponse("REJECTED", OCPI_3000_GENERIC_SERVER_ERROR)
               /\ poll_calls[c] = 0
               /\ post_calls(c) = 0
        /\ (poll_calls[c] > 0 \/ post_calls(c) > 0) => dispatch_result[c] = "ACCEPTED"

C4_Witness ==
    \E c \in Cmds :
        /\ dispatch_result[c] = "NOT_SUPPORTED"
        /\ http_response[c].kind = "OCPIResponse"
        /\ pc[c] = "returned"

\* C5: per command the events are ordered Dispatch < Poll < Deliver: a poll
\* attempt is made only after the dispatch and before any POST, and the POST is
\* made only once the loop has its terminal outcome (a non-empty result or the
\* budget used up); no poll attempt follows the POST.
C5_DispatchPollDeliverOrder ==
    [][\A c \in Cmds :
         /\ poll_calls'[c] # poll_calls[c] =>
                /\ dispatch_calls(c) = 1
                /\ posted[c] = <<>>
                /\ posted'[c] = <<>>
         /\ posted'[c] # posted[c] =>
                /\ poll_calls'[c] = poll_calls[c]
                /\ Truthy(command_result[c]) \/ poll_calls[c] = 30 * COMMAND_AWAIT_TIME
                /\ dispatch_calls(c) = 1
                /\ pc'[c] \notin {"scheduled", "poll", "sleep"}]_vars

C5_Witness ==
    \E c \in Cmds :
        /\ post_calls(c) = 1
        /\ poll_calls[c] > 1
        /\ dispatch_calls(c) = 1
        /\ Truthy(command_result[c])

\* C6: once scheduled, the background sequence of a command is never taken
\* back and ends: it leaves the poll loop, on the first non-empty result or
\* after the budget, and then makes one delivery attempt in both cases.
C6_TaskTerminatesWithDelivery ==
    /\ \A c \in Cmds : (pc[c] = "scheduled") ~> (TaskEnded(c) /\ post_calls(c) = 1)
    /\ [][\A c \in Cmds :
            pc[c] \in {"scheduled", "poll", "sleep", "deliver"} =>
                pc'[c] \in {"scheduled", "poll", "sleep", "deliver", "done", "failed"}]_vars

C6_Witness ==
    \E c \in Cmds :
        /\ TaskEnded(c)
        /\ background_tasks[c] = 1
        /\ post_calls(c) = 1
        /\ poll_calls[c] = PollBudget
        /\ sleep_calls[c] = PollBudget

\* C7: the response to the command sender does not wait for polling: the
\* ACCEPTED response is given when the task has only been added, before any
\* poll attempt or sleep of that command, and the poll sequence runs after it.
C7_ResponseBeforePolling ==
    \A c \in Cmds :
        /\ (poll_calls[c] > 0 \/ sleep_calls[c] > 0 \/ pc[c] \in {"poll", "sleep", "deliver"}) =>
               http_response[c] = OCPIResponse("ACCEPTED", OCPI_1000_GENERIC_SUCESS_CODE)
        /\ pc[c] = "scheduled" =>
               /\ http_response[c] = OCPIResponse("ACCEPTED", OCPI_1000_GENERIC_SUCESS_CODE)
               /\ poll_calls[c] = 0
               /\ sleep_calls[c] = 0

C7_Witness ==
    \E c \in Cmds :
        /\ pc[c] = "sleep"
        /\ poll_calls[c] = 1
        /\ http_response[c].kind = "OCPIResponse"
        /\ http_response[c].result = "ACCEPTED"

\* ------------------------------------------------------------- client_url
\* Strings are sequences of pieces; f-string interpolation and += are \o.
\* An optional string argument is NoneStr or Some(str).
COUNTRY_CODE == "DE"
PARTY_ID == "ABC"

ModuleID == {"locations", "sessions", "cdrs", "tariffs", "tokens"}

\* `if evse_uid:` - None and the empty string are falsy.
StrTruthy(opt) == ~opt.is_none /\ opt.value # <<>>

\* Mutant: the cdrs exception is missing.
client_url_always_appends(module_id, object_id, base_url, evse_uid, connector_id) ==
    LET url0 == base_url \o <<COUNTRY_CODE, "/", PARTY_ID, "/">> \o object_id
        url1 == IF StrTruthy(evse_uid) THEN url0 \o <<"/">> \o evse_uid.value ELSE url0
    IN  IF StrTruthy(connector_id) THEN url1 \o <<"/">> \o connector_id.value ELSE url1

client_url(module_id, object_id, base_url, evse_uid, connector_id) ==
    IF module_id = "cdrs" THEN base_url
    ELSE
    LET url0 == base_url \o <<COUNTRY_CODE, "/", PARTY_ID, "/">> \o object_id
        url1 == IF StrTruthy(evse_uid) THEN url0 \o <<"/">> \o evse_uid.value ELSE url0
    IN  IF StrTruthy(connector_id) THEN url1 \o <<"/">> \o connector_id.value ELSE url1

\* Mutant: the cdrs case is missing.
client_method_without_cdrs(module_id, use_patch) ==
    IF use_patch THEN "PATCH" ELSE "PUT"

client_method(module_id, use_patch) ==
    IF module_id = "cdrs" THEN "POST"
    ELSE IF use_patch THEN "PATCH" ELSE "PUT"

\* Arguments client_url is called with.
BaseUrls == {<<"https://x/loc/">>, <<"https://y/ocpi/2.3.0/">>, <<>>}
ObjectIds == {<<"LOC1">>, <<"CDR1">>}
OptionalIds == {NoneStr, Some(<<>>), Some(<<"E1">>), Some(<<"7">>)}

InitUrl ==
    /\ IdleCmd
    /\ IdlePush
    /\ IdleAuth
    /\ IdleApp
    /\ IdleCred
    /\ url_pc = "call"
    /\ url_args \in [module_id : ModuleID, object_id : ObjectIds, base_url : BaseUrls,
                     evse_uid : OptionalIds, connector_id : OptionalIds]
    /\ url = <<>>

call_client_url ==
    /\ url_pc = "call"
    /\ url' = client_url(url_args.module_id, url_args.object_id, url_args.base_url,
                         url_args.evse_uid, url_args.connector_id)
    /\ url_pc' = "returned"
    /\ UNCHANGED <<url_args, cmdVars, pushVars, authVars, appVars, credVars>>

NextUrl == call_client_url

SpecClientUrl == InitUrl /\ [][NextUrl]_vars

\* ------------------------------------------------------------------ Base64
\* A str is a sequence of code points, bytes are a sequence of 0..255.
\* encode_string_base64 and decode_string_base64 are the standard Base64 of
\* the UTF-8 bytes of a str, and back.
PAD == 61

\* The character of a 6-bit value: A-Z, a-z, 0-9, '+', '/'.
B64Char(n) ==
    IF n < 26 THEN 65 + n
    ELSE IF n < 52 THEN 97 + (n - 26)
    ELSE IF n < 62 THEN 48 + (n - 52)
    ELSE IF n = 62 THEN 43 ELSE 47

IsB64Char(ch) == \E n \in 0..63 : B64Char(n) = ch
B64Value(ch) == CHOOSE n \in 0..63 : B64Char(n) = ch

\* str.encode("utf-8") for code points below 0x800.
RECURSIVE utf8_encode(_)
utf8_encode(str) ==
    IF str = <<>> THEN <<>>
    ELSE IF str[1] < 128 THEN <<str[1]>> \o utf8_encode(Tail(str))
    ELSE <<192 + (str[1] \div 64), 128 + (str[1] % 64)>> \o utf8_encode(Tail(str))

RECURSIVE b64encode(_)
b64encode(b) ==
    IF Len(b) = 0 THEN <<>>
    ELSE IF Len(b) = 1
    THEN <<B64Char(b[1] \div 4), B64Char((b[1] % 4) * 16), PAD, PAD>>
    ELSE IF Len(b) = 2
    THEN <<B64Char(b[1] \div 4), B64Char((b[1] % 4) * 16 + (b[2] \div 16)),
           B64Char((b[2] % 16) * 4), PAD>>
    ELSE <<B64Char(b[1] \div 4), B64Char((b[1] % 4) * 16 + (b[2] \div 16)),
           B64Char((b[2] % 16) * 4 + (b[3] \div 64)), B64Char(b[3] % 64)>>
         \o b64encode(SubSeq(b, 4, Len(b)))

encode_string_base64(str) == b64encode(utf8_encode(str))

Failed == [ok |-> FALSE, value |-> <<>>]
Ok(value) == [ok |-> TRUE, value |-> value]

\* base64.b64decode without validation: characters outside the alphabet are
\* skipped, a complete padding ends the input, and an incomplete last group is
\* an error (binascii.Error, a ValueError).
RECURSIVE a2b_base64(_, _, _, _, _)
a2b_base64(s, quad_pos, leftchar, pads, out) ==
    IF s = <<>>
    THEN IF quad_pos # 0 THEN Failed ELSE Ok(out)
    ELSE IF s[1] = PAD
    THEN IF quad_pos >= 2 /\ quad_pos + pads + 1 >= 4
         THEN Ok(out)
         ELSE a2b_base64(Tail(s), quad_pos, leftchar, pads + 1, out)
    ELSE IF ~IsB64Char(s[1])
    THEN a2b_base64(Tail(s), quad_pos, leftchar, pads, out)
    ELSE LET v == B64Value(s[1])
         IN  CASE quad_pos = 0 -> a2b_base64(Tail(s), 1, v, 0, out)
               [] quad_pos = 1 ->
                    a2b_base64(Tail(s), 2, v % 16, 0,
                               Append(out, leftchar * 4 + (v \div 16)))
               [] quad_pos = 2 ->
                    a2b_base64(Tail(s), 3, v % 4, 0,
                               Append(out, leftchar * 16 + (v \div 4)))
               [] quad_pos = 3 ->
                    a2b_base64(Tail(s), 0, 0, 0, Append(out, leftchar * 64 + v))

b64decode(s) == a2b_base64(s, 0, 0, 0, <<>>)

IsContinuation(byte) == byte \in 128..191

\* bytes.decode("utf-8"): strict, an invalid sequence is a UnicodeDecodeError.
RECURSIVE utf8_decode(_)
utf8_decode(b) ==
    LET then(cp, n) ==
            LET rest == utf8_decode(SubSeq(b, n + 1, Len(b)))
            IN  IF rest.ok THEN Ok(<<cp>> \o rest.value) ELSE Failed
    IN  IF b = <<>> THEN Ok(<<>>)
        ELSE IF b[1] < 128 THEN then(b[1], 1)
        ELSE IF /\ b[1] \in 194..223
                /\ Len(b) >= 2
                /\ IsContinuation(b[2])
        THEN then((b[1] - 192) * 64 + (b[2] - 128), 2)
        ELSE IF /\ b[1] \in 224..239
                /\ Len(b) >= 3
                /\ IsContinuation(b[2])
                /\ IsContinuation(b[3])
                /\ (b[1] = 224 => b[2] >= 160)
                /\ (b[1] = 237 => b[2] < 160)
        THEN then((b[1] - 224) * 4096 + (b[2] - 128) * 64 + (b[3] - 128), 3)
        ELSE IF /\ b[1] \in 240..244
                /\ Len(b) >= 4
                /\ IsContinuation(b[2])
                /\ IsContinuation(b[3])
                /\ IsContinuation(b[4])
                /\ (b[1] = 240 => b[2] >= 144)
                /\ (b[1] = 244 => b[2] < 144)
        THEN then((b[1] - 240) * 262144 + (b[2] - 128) * 4096
                      + (b[3] - 128) * 64 + (b[4] - 128), 4)
        ELSE Failed

\* decode_string_base64: the str, or not ok when b64decode or the UTF-8
\* decoding raises.
decode_string_base64(str) ==
    LET bytes == b64decode(utf8_encode(str))
    IN  IF bytes.ok THEN utf8_decode(bytes.value) ELSE Failed

\* -------------------------------------------------------------- push_object
\* VersionNumber values with routers; version.value.startswith("2.1") reads
\* the first two components.
Versions == {<<2, 1, 1>>, <<2, 2, 1>>, <<2, 3, 0>>}
StartsWith(version, major, minor) == version[1] = major /\ version[2] = minor

Endpoint(identifier, role, endpoint_url) ==
    [identifier |-> identifier, role |-> role, url |-> endpoint_url]

OtherModule(module_id) == IF module_id = "locations" THEN "sessions" ELSE "locations"

\* Endpoint lists a receiver's version details can carry.
EndpointLists(module_id) ==
    { <<>>,
      <<Endpoint(module_id, "RECEIVER", <<"https://x/loc/">>)>>,
      <<Endpoint(module_id, "SENDER", <<"https://x/snd/">>)>>,
      <<Endpoint(OtherModule(module_id), "RECEIVER", <<"https://x/other/">>)>>,
      <<Endpoint(module_id, "SENDER", <<"https://x/snd/">>),
        Endpoint(module_id, "RECEIVER", <<"https://x/loc/">>)>> }

\* What the first GET on receiver.endpoints_url can give.
DiscoveryOutcomes ==
    {"VersionDetail", "VersionsList", "VersionsListWithoutVersion",
     "ConnectError", "Unusable"}
\* What the GET on the version's details URL can give.
DetailsOutcomes == {"VersionDetail", "ConnectError", "Unusable"}
\* What the data request can give: a status with a JSON body, a status with a
\* body that is no JSON, or a transport error.
DataOutcomes ==
    { [kind |-> "Response", status_code |-> 200, json |-> TRUE],
      [kind |-> "Response", status_code |-> 500, json |-> TRUE],
      [kind |-> "Response", status_code |-> 502, json |-> FALSE],
      [kind |-> "ConnectError"] }

\* How push_object is called: by the push routers (crud, no partial_data), by
\* push_partial_object (partial_data, crud None), and without the argument
\* its mode needs.
PushCalls ==
    { [use_patch |-> FALSE, partial_data |-> NoneStr, crud |-> TRUE],
      [use_patch |-> TRUE, partial_data |-> Some(<<"status", "last_updated">>),
       crud |-> FALSE],
      [use_patch |-> FALSE, partial_data |-> NoneStr, crud |-> FALSE],
      [use_patch |-> TRUE, partial_data |-> NoneStr, crud |-> FALSE] }

\* The condition under which send_push_request takes an endpoint's url.
endpoint_matches(endpoint, module_id, version) ==
    IF StartsWith(version, 2, 3) \/ StartsWith(version, 2, 2)
    THEN endpoint.identifier = module_id /\ endpoint.role = "RECEIVER"
    ELSE IF StartsWith(version, 2, 1)
    THEN endpoint.identifier = module_id
    ELSE FALSE

\* base_url after the loop over endpoints: "" or the last matching url.
select_base_url(endpoints, module_id, version) ==
    LET matching == {j \in 1..Len(endpoints) :
                         endpoint_matches(endpoints[j], module_id, version)}
    IN  IF matching = {} THEN <<>>
        ELSE endpoints[CHOOSE j \in matching : \A l \in matching : l <= j].url

\* Receiver.auth_token of the r-th receiver of a Push: "ab", "abc", "abcd", ...
\* - every receiver has a token of its own.
ReceiverToken(r) == [j \in 1..(r + 1) |-> 96 + j]

\* "Token " of f"Token {token}".
TokenPrefix == <<84, 111, 107, 101, 110, 32>>

\* Mutant: the token is sent as it is for every version.
receiver_token_always_raw(version, auth_token) == auth_token

\* token: receiver.auth_token for 2.1 and 2.0, its Base64 otherwise.
receiver_token(version, auth_token) ==
    IF StartsWith(version, 2, 1) \/ StartsWith(version, 2, 0)
    THEN auth_token
    ELSE encode_string_base64(auth_token)

GetRequest(r, target, authorization) ==
    [receiver |-> r, kind |-> "GET", target |-> target, sent |-> TRUE,
     authorization |-> authorization]
CrudGet(r, module_id, role) ==
    [receiver |-> r, kind |-> "crud.get", target |-> <<module_id>>, sent |-> TRUE,
     role |-> role]
DataRequest(r, method, target, sent, authorization, body) ==
    [receiver |-> r, kind |-> method, target |-> target, sent |-> sent,
     authorization |-> authorization, body |-> body]

\* Mutant: every entry carries the endpoints_url of the first receiver.
ReceiverResponse_first_url(r, status_code, response) ==
    [endpoints_url |-> 1, status_code |-> status_code, response |-> response]

\* ReceiverResponse(endpoints_url=receiver.endpoints_url, status_code=..., response=...)
ReceiverResponse(r, status_code, response) ==
    [endpoints_url |-> r, status_code |-> status_code, response |-> response]

\* What crud.get returns for the pushed object, and the adapter's dump of it.
StoredObject(module_id, role) == <<"object", module_id, role>>
request_data(module_id, object_data) == <<"adapter", module_id, object_data>>

\* send_push_request and the append that follows it, for receiver r with the
\* discovered endpoints: the request made, and the ReceiverResponse or the
\* exception that results. A url without scheme is refused by the HTTP client
\* (UnsupportedProtocol) before anything is sent.
send_push_request(r, object_data, module_id, authorization, endpoints, version, use_patch, outcome) ==
    LET data == IF use_patch THEN object_data ELSE request_data(module_id, object_data)
        base_url == select_base_url(endpoints, module_id, version)
        target == client_url(module_id, <<"OBJ">>, base_url, NoneStr, NoneStr)
        method == client_method(module_id, use_patch)
        request(sent) == <<DataRequest(r, method, target, sent, authorization, data)>>
    IN  IF base_url = <<>>
        THEN [requests |-> request(FALSE),
              raised |-> "UnsupportedProtocol", responses |-> <<>>]
        ELSE IF outcome.kind = "ConnectError"
        THEN [requests |-> request(TRUE),
              raised |-> "ConnectError", responses |-> <<>>]
        ELSE IF module_id = "cdrs"
        THEN [requests |-> request(TRUE),
              raised |-> "None",
              responses |-> <<ReceiverResponse(r, outcome.status_code, "headers")>>]
        ELSE IF outcome.json
        THEN [requests |-> request(TRUE),
              raised |-> "None",
              responses |-> <<ReceiverResponse(r, outcome.status_code, "json")>>]
        ELSE [requests |-> request(TRUE),
              raised |-> "JSONDecodeError", responses |-> <<>>]

\* Mutant: every module is read with the CPO role.
crud_role_always_cpo(module_id) == "CPO"

\* The role crud.get is called with.
crud_role(module_id) == IF module_id = "tokens" THEN "EMSP" ELSE "CPO"

\* `data` of one receiver: partial_data in partial-update mode, the object
\* crud.get returns in full-update mode; ValueError when the one needed is None.
object_read(r, module_id, use_patch, partial_data, crud) ==
    IF use_patch
    THEN IF partial_data.is_none
         THEN [requests |-> <<>>, raised |-> "ValueError", data |-> <<>>]
         ELSE [requests |-> <<>>, raised |-> "None", data |-> partial_data.value]
    ELSE IF ~crud
         THEN [requests |-> <<>>, raised |-> "ValueError", data |-> <<>>]
         ELSE [requests |-> <<CrudGet(r, module_id, crud_role(module_id))>>,
               raised |-> "None",
               data |-> StoredObject(module_id, crud_role(module_id))]

\* Mutant: a versions list without the pushed version is not refused; the
\* details are taken from the list's first entry.
discover_endpoints_any_version(r, disc, det, authorization) ==
    LET get1 == <<GetRequest(r, <<"endpoints_url">>, authorization)>>
        get2 == <<GetRequest(r, <<"version_url">>, authorization)>>
    IN  CASE disc = "ConnectError" -> [requests |-> get1, raised |-> "ConnectError"]
          [] disc = "Unusable" -> [requests |-> get1, raised |-> "KeyError"]
          [] disc \in {"VersionsList", "VersionsListWithoutVersion"}
                 /\ det = "ConnectError" ->
                 [requests |-> get1 \o get2, raised |-> "ConnectError"]
          [] disc \in {"VersionsList", "VersionsListWithoutVersion"}
                 /\ det = "Unusable" ->
                 [requests |-> get1 \o get2, raised |-> "KeyError"]
          [] disc \in {"VersionsList", "VersionsListWithoutVersion"}
                 /\ det = "VersionDetail" ->
                 [requests |-> get1 \o get2, raised |-> "None"]
          [] disc = "VersionDetail" -> [requests |-> get1, raised |-> "None"]

\* The GETs that obtain a receiver's endpoints: one on endpoints_url, and for
\* a versions list one more on the url of the entry with the pushed version.
discover_endpoints(r, disc, det, authorization) ==
    LET get1 == <<GetRequest(r, <<"endpoints_url">>, authorization)>>
        get2 == <<GetRequest(r, <<"version_url">>, authorization)>>
    IN  CASE disc = "ConnectError" -> [requests |-> get1, raised |-> "ConnectError"]
          [] disc = "Unusable" -> [requests |-> get1, raised |-> "KeyError"]
          [] disc = "VersionsListWithoutVersion" ->
                 [requests |-> get1, raised |-> "ValueError"]
          [] disc = "VersionsList" /\ det = "ConnectError" ->
                 [requests |-> get1 \o get2, raised |-> "ConnectError"]
          [] disc = "VersionsList" /\ det = "Unusable" ->
                 [requests |-> get1 \o get2, raised |-> "KeyError"]
          [] disc = "VersionsList" /\ det = "VersionDetail" ->
                 [requests |-> get1 \o get2, raised |-> "None"]
          [] disc = "VersionDetail" -> [requests |-> get1, raised |-> "None"]

\* f"Token {token}" of receiver.auth_token.
authorization_value(version, auth_token) ==
    TokenPrefix \o receiver_token(version, auth_token)

\* One iteration of `for receiver in push.receivers`, for receiver r, once
\* its endpoints are there.
push_iteration(r, authorization, version, module_id, use_patch, partial_data, crud, endpoints, outcome) ==
    LET read == object_read(r, module_id, use_patch, partial_data, crud)
        sent == send_push_request(r, read.data, module_id, authorization, endpoints,
                                  version, use_patch, outcome)
    IN  IF read.raised # "None"
        THEN [requests |-> read.requests, raised |-> read.raised, responses |-> <<>>]
        ELSE [requests |-> read.requests \o sent.requests,
              raised |-> sent.raised, responses |-> sent.responses]

InitPush ==
    /\ IdleCmd
    /\ IdleUrl
    /\ IdlePush
    /\ IdleAuth
    /\ IdleApp
    /\ IdleCred

\* push_object is called: receiver_responses = [].
push_object_call ==
    /\ push_pc = "idle"
    /\ \E version \in Versions, module_id \in ModuleID, call \in PushCalls,
          n \in 0..MaxReceivers :
         push_args' = [version |-> version, module_id |-> module_id,
                       use_patch |-> call.use_patch,
                       partial_data |-> call.partial_data,
                       crud |-> call.crud,
                       receivers |-> [r \in 1..n |-> ReceiverToken(r)], n |-> n]
    /\ push_pc' = "loop"
    /\ UNCHANGED <<k, receiver_responses, requests, discovery, raised>>
    /\ UNCHANGED <<cmdVars, urlVars, authVars, appVars, credVars>>

\* The loop body for the next receiver; an exception leaves push_object.
push_receiver ==
    /\ push_pc = "loop"
    /\ k < push_args.n
    /\ LET authorization == authorization_value(push_args.version,
                                                push_args.receivers[k + 1])
       IN  \E disc \in DiscoveryOutcomes, det \in DetailsOutcomes :
             LET found == discover_endpoints(k + 1, disc, det, authorization)
             IN  IF found.raised # "None"
                 THEN /\ requests' = requests \o found.requests
                      /\ discovery' = [receiver |-> k + 1, shape |-> disc,
                                        found |-> FALSE, endpoints |-> <<>>]
                      /\ raised' = found.raised
                      /\ push_pc' = "raised"
                      /\ UNCHANGED <<k, receiver_responses>>
                 ELSE \E endpoints \in EndpointLists(push_args.module_id),
                         outcome \in DataOutcomes :
                        LET it == push_iteration(k + 1, authorization, push_args.version,
                                                 push_args.module_id, push_args.use_patch,
                                                 push_args.partial_data, push_args.crud,
                                                 endpoints, outcome)
                        IN  /\ requests' = requests \o found.requests \o it.requests
                            /\ discovery' = [receiver |-> k + 1, shape |-> disc,
                                              found |-> TRUE, endpoints |-> endpoints]
                            /\ receiver_responses' = receiver_responses \o it.responses
                            /\ raised' = it.raised
                            /\ push_pc' = IF it.raised = "None" THEN "loop" ELSE "raised"
                            /\ k' = IF it.raised = "None" THEN k + 1 ELSE k
    /\ UNCHANGED push_args
    /\ UNCHANGED <<cmdVars, urlVars, authVars, appVars, credVars>>

\* return PushResponse(receiver_responses=receiver_responses)
push_return ==
    /\ push_pc = "loop"
    /\ k = push_args.n
    /\ push_pc' = "returned"
    /\ UNCHANGED <<push_args, k, receiver_responses, requests, discovery, raised>>
    /\ UNCHANGED <<cmdVars, urlVars, authVars, appVars, credVars>>

NextPush == push_object_call \/ push_receiver \/ push_return

SpecPush == InitPush /\ [][NextPush]_vars

\* ----------------------------------------------------------- authentication
\* Tokens as code points: "abc", its Base64 "YWJj", "abcd" (the Base64 of
\* bytes that are no UTF-8) and "ta".
Str_abc == <<97, 98, 99>>
Str_YWJj == <<89, 87, 74, 106>>
Str_abcd == <<97, 98, 99, 100>>
Str_ta == <<116, 97>>

\* What get_valid_token_c and get_valid_token_a can return.
TokenCLists == SUBSET {Str_abc, Str_YWJj, Str_abcd}
TokenALists == SUBSET {Str_abc, Str_ta}

\* Arguments of authenticate and authenticate_credentials.
AuthTokenArgs ==
    {NoneStr, Some(<<>>), Some(Str_abc), Some(Str_YWJj), Some(Str_abcd), Some(Str_ta)}

\* Values of the authorization header: "Token ", "Bearer ", "Token" or nothing
\* in front of a value, and headers of fewer than two words.
HeaderPrefixes ==
    {TokenPrefix, <<66, 101, 97, 114, 101, 114, 32>>, <<84, 111, 107, 101, 110>>, <<>>}
HeaderValues == {Str_abc, Str_YWJj, Str_abcd, Str_ta}
Headers ==
    {prefix \o value : prefix \in HeaderPrefixes, value \in HeaderValues}
        \cup {<<>>, <<32>>, TokenPrefix}

\* Values of the token query parameter of the websocket push.
QueryTokens == HeaderValues \cup {<<>>}

Result(returned, token, exception, calls) ==
    [returned |-> returned, token |-> token, raised |-> exception, calls |-> calls]

\* Mutant: a Token A is accepted as well.
authenticate_token_a_too(cls, auth_token) ==
    IF auth_token.is_none
           \/ (auth_token.value \notin cls.token_c /\ auth_token.value \notin cls.token_a)
    THEN [returned |-> "NotReturned", raised |-> "AuthorizationOCPIError"]
    ELSE [returned |-> "None", raised |-> "None"]

\* Authenticator.authenticate: raises unless auth_token is in the Token C list.
authenticate(cls, auth_token) ==
    IF auth_token.is_none \/ auth_token.value \notin cls.token_c
    THEN [returned |-> "NotReturned", raised |-> "AuthorizationOCPIError"]
    ELSE [returned |-> "None", raised |-> "None"]

\* Mutant: the Token C list is looked at first.
authenticate_credentials_c_first(cls, auth_token) ==
    IF StrTruthy(auth_token) /\ auth_token.value \in cls.token_c
    THEN Result("Token", auth_token.value, "None", <<>>)
    ELSE IF StrTruthy(auth_token) /\ auth_token.value \in cls.token_a
    THEN Result("EmptyDict", <<>>, "None", <<>>)
    ELSE Result("None", <<>>, "None", <<>>)

\* Authenticator.authenticate_credentials: {} for a Token A, the token for a
\* Token C, None otherwise.
authenticate_credentials(cls, auth_token) ==
    IF StrTruthy(auth_token) /\ auth_token.value \in cls.token_a
    THEN Result("EmptyDict", <<>>, "None", <<>>)
    ELSE IF StrTruthy(auth_token) /\ auth_token.value \in cls.token_c
    THEN Result("Token", auth_token.value, "None", <<>>)
    ELSE Result("None", <<>>, "None", <<>>)

\* str.split(): the words between runs of whitespace.
IsSpace(ch) == ch \in {9, 10, 11, 12, 13, 28, 29, 30, 31, 32, 133, 160}

RECURSIVE split_words(_, _)
split_words(str, word) ==
    LET words == IF word = <<>> THEN <<>> ELSE <<word>>
    IN  IF str = <<>> THEN words
        ELSE IF IsSpace(str[1]) THEN words \o split_words(Tail(str), <<>>)
        ELSE split_words(Tail(str), Append(word, str[1]))

split(str) == split_words(str, <<>>)

\* Mutant: a value that cannot be decoded is an error.
decoded_token_strict(version, token) ==
    IF StartsWith(version, 2, 2) \/ StartsWith(version, 2, 3)
    THEN LET decoded == decode_string_base64(token)
         IN  IF decoded.ok THEN [raised |-> "None", token |-> decoded.value]
             ELSE [raised |-> "ValueError", token |-> token]
    ELSE [raised |-> "None", token |-> token]

\* Mutant: the value is decoded whatever the version.
decoded_token_any_version(version, token) ==
    LET decoded == decode_string_base64(token)
    IN  IF decoded.ok THEN [raised |-> "None", token |-> decoded.value]
        ELSE [raised |-> "None", token |-> token]

\* The token handed to the authenticator: for 2.2 and 2.3 the decoded value,
\* or the value itself when decoding raises; the value itself otherwise.
decoded_token(version, token) ==
    IF StartsWith(version, 2, 2) \/ StartsWith(version, 2, 3)
    THEN LET decoded == decode_string_base64(token)
         IN  IF decoded.ok THEN [raised |-> "None", token |-> decoded.value]
             ELSE [raised |-> "None", token |-> token]
    ELSE [raised |-> "None", token |-> token]

\* Mutant: NO_AUTH lets every value pass.
no_auth_bypass_any_value(NO_AUTH, value) == NO_AUTH

\* `if settings.NO_AUTH and authorization == ""`
no_auth_bypass(NO_AUTH, value) == NO_AUTH /\ value = <<>>

\* Mutant: a decoded value that is no Token C is followed by a lookup of
\* the value as it was sent.
verify_header_retry_raw(version, authorization, cls, NO_AUTH) ==
    IF no_auth_bypass(NO_AUTH, authorization)
    THEN Result("True", <<>>, "None", <<>>)
    ELSE LET parts == split(authorization)
         IN  IF Len(parts) < 2
             THEN Result("NotReturned", <<>>, "AuthorizationOCPIError", <<>>)
             ELSE LET decoded == decoded_token(version, parts[2])
                      outcome == authenticate(cls, Some(decoded.token))
                      retry == authenticate(cls, Some(parts[2]))
                  IN  IF outcome.raised = "None" \/ decoded.token = parts[2]
                      THEN Result(outcome.returned, <<>>, outcome.raised,
                                  <<decoded.token>>)
                      ELSE Result(retry.returned, <<>>, retry.raised,
                                  <<decoded.token, parts[2]>>)

\* The body AuthorizationVerifier and HttpPushVerifier have in common.
verify_header(version, authorization, cls, NO_AUTH) ==
    IF no_auth_bypass(NO_AUTH, authorization)
    THEN Result("True", <<>>, "None", <<>>)
    ELSE LET parts == split(authorization)
         IN  IF Len(parts) < 2
             THEN Result("NotReturned", <<>>, "AuthorizationOCPIError", <<>>)
             ELSE LET decoded == decoded_token(version, parts[2])
                      outcome == authenticate(cls, Some(decoded.token))
                  IN  IF decoded.raised # "None"
                      THEN Result("NotReturned", <<>>, decoded.raised, <<>>)
                      ELSE Result(outcome.returned, <<>>, outcome.raised,
                                  <<decoded.token>>)

AuthorizationVerifier(version, authorization, cls, NO_AUTH) ==
    verify_header(version, authorization, cls, NO_AUTH)

HttpPushVerifier(version, authorization, cls, NO_AUTH) ==
    verify_header(version, authorization, cls, NO_AUTH)

\* WSPushVerifier: the token is a query parameter, and a refusal closes the
\* websocket with WS_1008_POLICY_VIOLATION.
WSPushVerifier(version, token, cls, NO_AUTH) ==
    IF no_auth_bypass(NO_AUTH, token)
    THEN Result("True", <<>>, "None", <<>>)
    ELSE IF token = <<>>
    THEN Result("NotReturned", <<>>, "WebSocketException", <<>>)
    ELSE LET decoded == decoded_token(version, token)
             outcome == authenticate(cls, Some(decoded.token))
         IN  IF decoded.raised # "None"
             THEN Result("NotReturned", <<>>, decoded.raised, <<>>)
             ELSE IF outcome.raised = "AuthorizationOCPIError"
             THEN Result("NotReturned", <<>>, "WebSocketException", <<decoded.token>>)
             ELSE Result(outcome.returned, <<>>, outcome.raised, <<decoded.token>>)

InitAuth ==
    /\ IdleCmd
    /\ IdlePush
    /\ IdleUrl
    /\ IdleApp
    /\ IdleCred
    /\ auth_pc = "idle"
    /\ settings \in [NO_AUTH : BOOLEAN, VERSIONS_REQUIRE_AUTH : BOOLEAN]
    /\ authenticator \in [token_c : TokenCLists, token_a : TokenALists]
    /\ auth_call = NoCall
    /\ auth_result = NoResult
    /\ app_response = NoAppResponse

call_authenticate ==
    /\ auth_pc = "idle"
    /\ \E auth_token \in AuthTokenArgs :
         LET outcome == authenticate(authenticator, auth_token)
         IN  /\ auth_call' = [op |-> "authenticate", version |-> <<2, 1, 1>>,
                              value |-> auth_token]
             /\ auth_result' = Result(outcome.returned, <<>>, outcome.raised, <<>>)
    /\ auth_pc' = "returned"
    /\ UNCHANGED <<settings, authenticator, app_response, cmdVars, pushVars, urlVars, appVars, credVars>>

call_authenticate_credentials ==
    /\ auth_pc = "idle"
    /\ \E auth_token \in AuthTokenArgs :
         /\ auth_call' = [op |-> "authenticate_credentials", version |-> <<2, 1, 1>>,
                          value |-> auth_token]
         /\ auth_result' = authenticate_credentials(authenticator, auth_token)
    /\ auth_pc' = "returned"
    /\ UNCHANGED <<settings, authenticator, app_response, cmdVars, pushVars, urlVars, appVars, credVars>>

call_AuthorizationVerifier ==
    /\ auth_pc = "idle"
    /\ \E version \in Versions, authorization \in Headers :
         /\ auth_call' = [op |-> "AuthorizationVerifier", version |-> version,
                          value |-> Some(authorization)]
         /\ auth_result' = AuthorizationVerifier(version, authorization, authenticator,
                                                 settings.NO_AUTH)
    /\ auth_pc' = "returned"
    /\ UNCHANGED <<settings, authenticator, app_response, cmdVars, pushVars, urlVars, appVars, credVars>>

call_HttpPushVerifier ==
    /\ auth_pc = "idle"
    /\ \E version \in Versions, authorization \in Headers :
         /\ auth_call' = [op |-> "HttpPushVerifier", version |-> version,
                          value |-> Some(authorization)]
         /\ auth_result' = HttpPushVerifier(version, authorization, authenticator,
                                            settings.NO_AUTH)
    /\ auth_pc' = "returned"
    /\ UNCHANGED <<settings, authenticator, app_response, cmdVars, pushVars, urlVars, appVars, credVars>>

call_WSPushVerifier ==
    /\ auth_pc = "idle"
    /\ \E version \in Versions, token \in QueryTokens :
         /\ auth_call' = [op |-> "WSPushVerifier", version |-> version,
                          value |-> Some(token)]
         /\ auth_result' = WSPushVerifier(version, token, authenticator,
                                          settings.NO_AUTH)
    /\ auth_pc' = "returned"
    /\ UNCHANGED <<settings, authenticator, app_response, cmdVars, pushVars, urlVars, appVars, credVars>>

\* ------------------------------------------- discovery endpoints, middleware
HTTP_401_UNAUTHORIZED == 401
HTTP_403_FORBIDDEN == 403
HTTP_404_NOT_FOUND == 404

\* VersionsAuthorizationVerifier(None) of /versions: no version.
NoVersion == <<0, 0, 0>>

\* What the client receives: the HTTP status, the OCPI status_code and data
\* of an OCPIResponse body (0 and "None" without one), and the other content.
AppResponse(http, status_code, data, content) ==
    [http |-> http, status_code |-> status_code, data |-> data, endpoints |-> <<>>,
     content |-> content, escaped |-> "None"]

\* call_next(request): the response of the application, or the exception that
\* comes out of it.
Handled(answer) == [raised |-> "None", response |-> answer]
Raises(exception) == [raised |-> exception, response |-> NoAppResponse]

\* Exceptions a handler or a dependency lets out.
HandlerExceptions ==
    {"AuthorizationOCPIError", "NotFoundOCPIError", "ValidationError", "ValueError",
     "KeyError", "ConnectError", "JSONDecodeError", "UnsupportedProtocol"}

\* Mutant: only the three named exceptions are caught.
dispatch_without_catch_all(outcome) ==
    CASE outcome.raised = "None" -> outcome.response
      [] outcome.raised = "AuthorizationOCPIError" ->
             AppResponse(HTTP_403_FORBIDDEN, 0, "None", "detail")
      [] outcome.raised = "NotFoundOCPIError" ->
             AppResponse(HTTP_404_NOT_FOUND, 0, "None", "detail")
      [] outcome.raised = "ValidationError" ->
             AppResponse(HTTP_200_OK, OCPI_3000_GENERIC_SERVER_ERROR, "[]", "OCPIResponse")
      [] OTHER -> [NoAppResponse EXCEPT !.escaped = outcome.raised]

\* ExceptionHandlerMiddleware.dispatch
dispatch(outcome) ==
    CASE outcome.raised = "None" -> outcome.response
      [] outcome.raised = "AuthorizationOCPIError" ->
             AppResponse(HTTP_403_FORBIDDEN, 0, "None", "detail")
      [] outcome.raised = "NotFoundOCPIError" ->
             AppResponse(HTTP_404_NOT_FOUND, 0, "None", "detail")
      [] outcome.raised = "ValidationError" ->
             AppResponse(HTTP_200_OK, OCPI_3000_GENERIC_SERVER_ERROR, "[]", "OCPIResponse")
      [] OTHER ->
             AppResponse(HTTP_200_OK, OCPI_3000_GENERIC_SERVER_ERROR, "[]", "OCPIResponse")

\* The legacy branch of CredentialsAuthorizationVerifier: decode, or keep the
\* value when decoding raises.
decoded_token_legacy(token) ==
    LET decoded == decode_string_base64(token)
    IN  IF decoded.ok THEN decoded.value ELSE token

CredentialsAuthorizationVerifier(version, authorization, cls) ==
    LET parts == split(authorization)
        token == IF version # NoVersion THEN decoded_token(version, parts[2]).token
                 ELSE decoded_token_legacy(parts[2])
        outcome == authenticate_credentials(cls, Some(token))
    IN  IF Len(parts) < 2
        THEN Result("NotReturned", <<>>, "AuthorizationOCPIError", <<>>)
        ELSE Result(outcome.returned, outcome.token, outcome.raised, <<token>>)

\* `not authorization or authorization.strip() == ""`
blank(authorization) == \A j \in 1..Len(authorization) : IsSpace(authorization[j])

\* Mutant: without a header the caller is let in whatever VERSIONS_REQUIRE_AUTH is.
VersionsAuthorizationVerifier_always_optional(version, authorization, cls, config) ==
    IF config.NO_AUTH /\ authorization = <<>>
    THEN Result("EmptyStr", <<>>, "None", <<>>)
    ELSE IF blank(authorization)
    THEN Result("EmptyStr", <<>>, "None", <<>>)
    ELSE CredentialsAuthorizationVerifier(version, authorization, cls)

VersionsAuthorizationVerifier(version, authorization, cls, config) ==
    IF config.NO_AUTH /\ authorization = <<>>
    THEN Result("EmptyStr", <<>>, "None", <<>>)
    ELSE IF ~config.VERSIONS_REQUIRE_AUTH /\ blank(authorization)
    THEN Result("EmptyStr", <<>>, "None", <<>>)
    ELSE IF blank(authorization)
    THEN Result("None", <<>>, "None", <<>>)
    ELSE CredentialsAuthorizationVerifier(version, authorization, cls)

\* get_versions and get_version_details after their dependency gave
\* server_cred: 401 for None, the discovery data otherwise, which for the
\* details are the endpoints of the version.
discovery_endpoint(server_cred, data, endpoints) ==
    IF server_cred.raised # "None" THEN Raises(server_cred.raised)
    ELSE IF server_cred.returned = "None"
    THEN Handled(AppResponse(HTTP_401_UNAUTHORIZED, 0, "None", "Unauthorized"))
    ELSE Handled([AppResponse(HTTP_200_OK, OCPI_1000_GENERIC_SUCESS_CODE, data,
                              "OCPIResponse") EXCEPT !.endpoints = endpoints])

\* GET /versions
get_versions ==
    /\ auth_pc = "idle"
    /\ \E authorization \in Headers :
         LET server_cred == VersionsAuthorizationVerifier(NoVersion, authorization,
                                                          authenticator, settings)
         IN  /\ auth_call' = [op |-> "get_versions", version |-> NoVersion,
                              value |-> Some(authorization)]
             /\ auth_result' = server_cred
             /\ app_response' = dispatch(discovery_endpoint(server_cred, "versions", <<>>))
    /\ auth_pc' = "returned"
    /\ UNCHANGED <<settings, authenticator, cmdVars, pushVars, urlVars, appVars, credVars>>

\* GET /2.3.0/details of an application that has the version.
get_version_details ==
    /\ auth_pc = "idle"
    /\ app_pc = "started"
    /\ <<2, 3, 0>> \in DOMAIN version_endpoints
    /\ \E authorization \in Headers :
         LET server_cred == VersionsAuthorizationVerifier(<<2, 3, 0>>, authorization,
                                                          authenticator, settings)
         IN  /\ auth_call' = [op |-> "get_version_details", version |-> <<2, 3, 0>>,
                              value |-> Some(authorization)]
             /\ auth_result' = server_cred
             /\ app_response' =
                    dispatch(discovery_endpoint(server_cred, "VersionDetail",
                                                version_endpoints[<<2, 3, 0>>]))
    /\ served' = IF app_response'.data = "VersionDetail"
                 THEN served \union {app_response'.endpoints}
                 ELSE served
    /\ auth_pc' = "returned"
    /\ UNCHANGED <<settings, authenticator, cmdVars, pushVars, urlVars, credVars>>
    /\ UNCHANGED <<app_pc, app_args, version_endpoints, routes>>

\* A request whose handling raises.
request_raises ==
    /\ auth_pc = "idle"
    /\ \E exception \in HandlerExceptions :
         /\ auth_call' = [op |-> "request", version |-> NoVersion, value |-> NoneStr]
         /\ auth_result' = Result("NotReturned", <<>>, exception, <<>>)
         /\ app_response' = dispatch(Raises(exception))
    /\ auth_pc' = "returned"
    /\ UNCHANGED <<settings, authenticator, cmdVars, pushVars, urlVars, appVars, credVars>>

NextAuth ==
    \/ call_authenticate
    \/ call_authenticate_credentials
    \/ call_AuthorizationVerifier
    \/ call_HttpPushVerifier
    \/ call_WSPushVerifier
    \/ get_versions
    \/ get_version_details
    \/ request_raises

SpecAuth == InitAuth /\ [][NextAuth]_vars

\* ------------------------------------------------ get_application: startup
EnabledModules == {"locations", "commands", "payments", "bookings"}

\* Lists of at most n different elements of a set.
RECURSIVE Lists(_, _)
Lists(set, n) ==
    IF n = 0 THEN {<<>>}
    ELSE Lists(set, n - 1) \union
             {Append(list, x) : list \in {l \in Lists(set, n - 1) : Len(l) = n - 1},
                                x \in set}

ModuleLists == {list \in Lists(EnabledModules, MaxModules) :
                   Cardinality(Elements(list)) = Len(list)}

\* VersionNumber values: 2.0 has no routers.
VersionNumbers == {<<2, 0>>, <<2, 1, 1>>, <<2, 3, 0>>}
VersionLists == {list \in Lists(VersionNumbers, 2) :
                    list # <<>> /\ Cardinality(Elements(list)) = Len(list)}

InitApp ==
    /\ IdleCmd
    /\ IdlePush
    /\ IdleUrl
    /\ IdleCred
    /\ auth_pc = "idle"
    /\ settings \in [NO_AUTH : {FALSE}, VERSIONS_REQUIRE_AUTH : BOOLEAN]
    /\ authenticator = [token_c |-> {Str_abc}, token_a |-> {Str_ta}]
    /\ auth_call = NoCall
    /\ auth_result = NoResult
    /\ app_response = NoAppResponse
    /\ app_pc = "init"
    /\ app_args \in [version_numbers : VersionLists, roles : SUBSET RoleEnum,
                     modules : ModuleLists]
    /\ version_endpoints = <<>>
    /\ routes = {}
    /\ served = {}

get_application ==
    /\ app_pc = "init"
    /\ LET app == application(app_args.version_numbers, app_args.roles, app_args.modules)
       IN  /\ app_pc' = IF app.raised = "None" THEN "started" ELSE "raised"
           /\ version_endpoints' = app.version_endpoints
           /\ routes' = app.routes
    /\ UNCHANGED <<app_args, served, cmdVars, pushVars, urlVars, authVars, credVars>>

\* The request is over and the next one arrives.
next_request ==
    /\ auth_pc = "returned"
    /\ auth_pc' = "idle"
    /\ auth_call' = NoCall
    /\ auth_result' = NoResult
    /\ app_response' = NoAppResponse
    /\ UNCHANGED <<settings, authenticator, cmdVars, pushVars, urlVars, appVars, credVars>>

NextApp == get_application \/ get_version_details \/ next_request

SpecApplication == InitApp /\ [][NextApp]_vars

\* ----------------------------------------------- the credentials handshake
\* What GET {partner discovery URL} gives: the list of versions, directly a
\* VersionDetail, a list without the negotiated version, or no 2xx.
VersionsOutcomes == {"list", "VersionDetail", "omitted", "non2xx"}
\* What GET of the version's details URL gives.
EndpointsOutcomes == {"2xx", "non2xx"}

InitCred ==
    /\ IdleCmd
    /\ IdlePush
    /\ IdleUrl
    /\ IdleAuth
    /\ IdleApp
    /\ IdleCred

\* POST credentials with a Token A: the handler asks the storage for the
\* party's registration (Action.get_client_token).
post_credentials(h) ==
    /\ handshake_pc[h] = "idle"
    /\ registered' = [registered EXCEPT ![h] = registrations # <<>>]
    /\ handshake_pc' = [handshake_pc EXCEPT ![h] = "versions"]
    /\ UNCHANGED <<registrations, cmdVars, pushVars, urlVars, authVars, appVars>>

\* GET of the partner's discovery URL returns.
get_partner_versions(h) ==
    /\ handshake_pc[h] = "versions"
    /\ \E outcome \in VersionsOutcomes :
         handshake_pc' = [handshake_pc EXCEPT ![h] =
                              CASE outcome = "list" -> "details"
                                [] outcome = "VersionDetail" -> "record"
                                [] OTHER -> "failed"]
    /\ UNCHANGED <<registered, registrations, cmdVars, pushVars, urlVars, authVars, appVars>>

\* GET of the details URL returns.
get_partner_endpoints(h) ==
    /\ handshake_pc[h] = "details"
    /\ \E outcome \in EndpointsOutcomes :
         handshake_pc' = [handshake_pc EXCEPT ![h] =
                              IF outcome = "2xx" THEN "record" ELSE "failed"]
    /\ UNCHANGED <<registered, registrations, cmdVars, pushVars, urlVars, authVars, appVars>>

\* The storage issues Token C and records the registration: in place of
\* the one the handshake found, or as a new one when it found none.
record_registration(h) ==
    /\ handshake_pc[h] = "record"
    /\ registrations' = IF registered[h] THEN <<h>> ELSE Append(registrations, h)
    /\ handshake_pc' = [handshake_pc EXCEPT ![h] = "done"]
    /\ UNCHANGED <<registered, cmdVars, pushVars, urlVars, authVars, appVars>>

NextCred ==
    \E h \in Handshakes :
        \/ post_credentials(h)
        \/ get_partner_versions(h)
        \/ get_partner_endpoints(h)
        \/ record_registration(h)

SpecCredentials == InitCred /\ [][NextCred]_vars



\* --------------------------------------------------- claims on push_object
DataMethods == {"PUT", "PATCH", "POST"}

\* Receiver r was sent a data request.
DataRequestSent(r) ==
    \E q \in 1..Len(requests) :
        requests[q].receiver = r /\ requests[q].kind \in DataMethods /\ requests[q].sent

\* Receiver r was contacted at all.
Contacted(r) == \E q \in 1..Len(requests) : requests[q].receiver = r

\* The endpoint list has no endpoint for the module (role RECEIVER from 2.2 on).
NoReceiverEndpoint(endpoints, module_id, version) ==
    ~\E j \in 1..Len(endpoints) :
        /\ endpoints[j].identifier = module_id
        /\ (version[2] >= 2 => endpoints[j].role = "RECEIVER")

\* C8: push_object with N receivers, one of whose HTTP exchanges fails, still
\* returns exactly N receiver results, contacts the receivers after the failed
\* one, and lets no exception reach its caller.
C8_FailureKeptPerReceiver ==
    /\ push_pc # "raised"
    /\ raised = "None"
    /\ push_pc = "returned" =>
           /\ Len(receiver_responses) = push_args.n
           /\ \A r \in 1..push_args.n : Contacted(r)

\* C9: a receiver whose discovered endpoints lack the pushed module is sent no
\* data request and fails alone, with an endpoint-not-found error; the push
\* goes on to the other receivers.
C9_MissingEndpointFailsAlone ==
    (/\ discovery.found
     /\ NoReceiverEndpoint(discovery.endpoints, push_args.module_id, push_args.version)) =>
            /\ ~DataRequestSent(discovery.receiver)
            /\ raised \in {"None", "EndpointNotFoundError"}
            /\ push_pc # "raised"

\* C11: the data request of a push is a POST when the module is cdrs, whatever
\* use_patch is; for every other module it is a PATCH when use_patch is set and
\* a PUT when it is not.
C11_PushMethod ==
    \A q \in 1..Len(requests) :
        requests[q].kind \in DataMethods =>
            /\ push_args.module_id = "cdrs" => requests[q].kind = "POST"
            /\ push_args.module_id # "cdrs" /\ push_args.use_patch =>
                   requests[q].kind = "PATCH"
            /\ push_args.module_id # "cdrs" /\ ~push_args.use_patch =>
                   requests[q].kind = "PUT"

C11_Witness ==
    /\ push_args.module_id = "cdrs"
    /\ push_args.use_patch
    /\ \E q \in 1..Len(requests) : requests[q].kind = "POST" /\ requests[q].sent

\* The requests of receiver r, in the order they were made.
RequestsOf(r) == SelectSeq(requests, LAMBDA q : q.receiver = r)
GetsOf(r) == SelectSeq(requests, LAMBDA q : q.receiver = r /\ q.kind = "GET")
DataRequestsOf(r) ==
    SelectSeq(requests, LAMBDA q : q.receiver = r /\ q.kind \in DataMethods)
ReadsOf(r) == SelectSeq(requests, LAMBDA q : q.receiver = r /\ q.kind = "crud.get")

\* "Token ab", "Token abc", "Token abcd" and, with the Base64 text of the
\* tokens, "Token YWI=", "Token YWJj", "Token YWJjZA==".
RawAuthorization(r) ==
    CASE r = 1 -> <<84, 111, 107, 101, 110, 32, 97, 98>>
      [] r = 2 -> <<84, 111, 107, 101, 110, 32, 97, 98, 99>>
      [] r = 3 -> <<84, 111, 107, 101, 110, 32, 97, 98, 99, 100>>
Base64Authorization(r) ==
    CASE r = 1 -> <<84, 111, 107, 101, 110, 32, 89, 87, 73, 61>>
      [] r = 2 -> <<84, 111, 107, 101, 110, 32, 89, 87, 74, 106>>
      [] r = 3 -> <<84, 111, 107, 101, 110, 32, 89, 87, 74, 106, 90, 65, 61, 61>>

\* C12: every GET and every data request made for a receiver carries
\* 'Token <t>' with t the receiver's own auth_token, unchanged for 2.1.x and
\* in Base64 from 2.2 on; the requests of one receiver carry one value, and
\* the requests of two receivers never the same one.
C12_ReceiverOwnToken ==
    \A q \in 1..Len(requests) :
        requests[q].kind \in DataMethods \cup {"GET"} =>
            /\ push_args.version = <<2, 1, 1>> =>
                   /\ requests[q].authorization = RawAuthorization(requests[q].receiver)
                   /\ requests[q].authorization =
                          <<84, 111, 107, 101, 110, 32>>
                              \o push_args.receivers[requests[q].receiver]
            /\ push_args.version \in {<<2, 2, 1>>, <<2, 3, 0>>} =>
                   requests[q].authorization = Base64Authorization(requests[q].receiver)
            /\ \A p \in 1..Len(requests) :
                   requests[p].kind \in DataMethods \cup {"GET"} =>
                       (requests[p].authorization = requests[q].authorization
                            <=> requests[p].receiver = requests[q].receiver)

C12_Witness ==
    /\ push_args.version = <<2, 2, 1>>
    /\ push_pc = "returned"
    /\ Len(GetsOf(1)) = 2
    /\ Len(DataRequestsOf(2)) = 1
    /\ DataRequestsOf(2)[1].sent
    /\ DataRequestsOf(2)[1].authorization = Base64Authorization(2)
    /\ DataRequestsOf(1)[1].authorization = Base64Authorization(1)

\* C13: a first GET that gives a VersionDetail supplies the endpoints after
\* one GET; one that gives a versions list with the pushed version is followed
\* by exactly one more GET, on that entry's url, which supplies them; a list
\* without the pushed version is a failure with no further GET and no data
\* request to that receiver.
C13_BothDiscoveryShapes ==
    /\ \A r \in 1..push_args.n :
           /\ Len(GetsOf(r)) <= 2
           /\ Len(GetsOf(r)) >= 1 => GetsOf(r)[1].target = <<"endpoints_url">>
           /\ Len(GetsOf(r)) = 2 => GetsOf(r)[2].target = <<"version_url">>
           /\ Len(DataRequestsOf(r)) <= 1
    /\ discovery.shape = "VersionDetail" =>
           /\ Len(GetsOf(discovery.receiver)) = 1
           /\ discovery.found
    /\ discovery.shape = "VersionsList" =>
           /\ Len(GetsOf(discovery.receiver)) = 2
           /\ discovery.found <=> raised \notin {"ConnectError", "KeyError"}
                                      \/ Len(RequestsOf(discovery.receiver)) > 2
    /\ discovery.shape = "VersionsListWithoutVersion" =>
           /\ Len(GetsOf(discovery.receiver)) = 1
           /\ ~discovery.found
           /\ DataRequestsOf(discovery.receiver) = <<>>
           /\ raised # "None"
           /\ push_pc = "raised"
    /\ \A r \in 1..push_args.n :
           DataRequestsOf(r) # <<>> => discovery.receiver > r \/ discovery.found

C13_Witness ==
    /\ discovery.receiver = 2
    /\ discovery.shape = "VersionsList"
    /\ discovery.found
    /\ Len(GetsOf(1)) = 1
    /\ Len(GetsOf(2)) = 2
    /\ Len(DataRequestsOf(1)) = 1
    /\ Len(DataRequestsOf(2)) = 1
    /\ DataRequestsOf(2)[1].sent
    /\ DataRequestsOf(1)[1].target = DataRequestsOf(2)[1].target

Given(opt) == opt # NoneStr /\ opt # Some(<<>>)
Segment(opt) == IF Given(opt) THEN <<"/">> \o opt.value ELSE <<>>

\* C10: client_url returns the base URL unchanged for module cdrs whatever the
\* ids are; for every other module it returns
\* base_url + COUNTRY_CODE + '/' + PARTY_ID + '/' + object_id, followed by
\* '/' + evse_uid and '/' + connector_id when these are given; base
\* https://x/loc/ with DE, ABC and LOC1 gives https://x/loc/DE/ABC/LOC1.
C10_ClientUrl ==
    url_pc = "returned" =>
        /\ url_args.module_id = "cdrs" => url = url_args.base_url
        /\ url_args.module_id # "cdrs" =>
               url = url_args.base_url \o <<"DE", "/", "ABC", "/">> \o url_args.object_id
                       \o Segment(url_args.evse_uid) \o Segment(url_args.connector_id)
        /\ (/\ url_args.module_id = "locations"
            /\ url_args.base_url = <<"https://x/loc/">>
            /\ url_args.object_id = <<"LOC1">>
            /\ url_args.evse_uid = NoneStr
            /\ url_args.connector_id = NoneStr) =>
               url = <<"https://x/loc/", "DE", "/", "ABC", "/", "LOC1">>

C10_Witness ==
    /\ url_pc = "returned"
    /\ url_args.module_id = "locations"
    /\ url_args.evse_uid = Some(<<"E1">>)
    /\ url_args.connector_id = Some(<<"7">>)
    /\ url = <<"https://x/loc/", "DE", "/", "ABC", "/", "LOC1", "/", "E1", "/", "7">>

\* ------------------------------------------------- claims on authentication
Verifiers == {"AuthorizationVerifier", "HttpPushVerifier", "WSPushVerifier"}
HeaderVerifiers == {"AuthorizationVerifier", "HttpPushVerifier"}

\* The call was given value as its token: 'Token ' + value in the header, or
\* value as the query parameter of the websocket.
Presented(value) ==
    \/ /\ auth_call.op \in HeaderVerifiers
       /\ auth_call.value = Some(<<84, 111, 107, 101, 110, 32>> \o value)
    \/ /\ auth_call.op = "WSPushVerifier"
       /\ auth_call.value = Some(value)

Accepted == auth_pc = "returned" /\ auth_result.raised = "None"
Rejected ==
    /\ auth_pc = "returned"
    /\ auth_result.returned = "NotReturned"
    /\ auth_result.raised =
           IF auth_call.op = "WSPushVerifier" THEN "WebSocketException"
           ELSE "AuthorizationOCPIError"

\* Values that are no Base64 of a str: "abc" and "ta" lack padding, "abcd"
\* gives bytes that are no UTF-8. "YWJj" is the Base64 of "abc".
Undecodable == {<<97, 98, 99>>, <<116, 97>>, <<97, 98, 99, 100>>}

\* C15: authenticate(token) returns when the token is in the list that
\* get_valid_token_c gives and raises AuthorizationOCPIError when it is not,
\* whatever the Token A list holds.
C15_AuthenticateIffTokenC ==
    auth_call.op = "authenticate" =>
        IF ~auth_call.value.is_none /\ auth_call.value.value \in authenticator.token_c
        THEN auth_result.returned = "None" /\ auth_result.raised = "None"
        ELSE /\ auth_result.returned = "NotReturned"
             /\ auth_result.raised = "AuthorizationOCPIError"

C15_Witness ==
    /\ auth_call.op = "authenticate"
    /\ auth_call.value = Some(<<116, 97>>)
    /\ <<116, 97>> \in authenticator.token_a
    /\ auth_result.raised = "AuthorizationOCPIError"

\* C16: authenticate_credentials(token) returns {} for a valid Token A, the
\* token itself for a valid Token C that is no Token A, and None for every
\* other input, the empty string and None among them; a token in both lists
\* counts as a Token A.
C16_CredentialsResult ==
    auth_call.op = "authenticate_credentials" =>
        LET token == auth_call.value
            given == token # NoneStr /\ token # Some(<<>>)
        IN  /\ auth_result.raised = "None"
            /\ given /\ token.value \in authenticator.token_a =>
                   auth_result.returned = "EmptyDict"
            /\ given /\ token.value \notin authenticator.token_a
                     /\ token.value \in authenticator.token_c =>
                   auth_result.returned = "Token" /\ auth_result.token = token.value
            /\ ~given \/ (/\ token.value \notin authenticator.token_a
                          /\ token.value \notin authenticator.token_c) =>
                   auth_result.returned = "None"

C16_Witness ==
    /\ auth_call.op = "authenticate_credentials"
    /\ auth_call.value = Some(<<97, 98, 99>>)
    /\ <<97, 98, 99>> \in authenticator.token_a
    /\ <<97, 98, 99>> \in authenticator.token_c
    /\ auth_result.returned = "EmptyDict"

\* C17: from version 2.2 on, a value that cannot be Base64-decoded is handed
\* to the authenticator as it is: the call is accepted exactly when the raw
\* value is a Token C, and is refused as unauthorized otherwise; no decoding
\* error comes out of the verifier.
C17_RawFallback ==
    \A value \in Undecodable :
        (/\ auth_pc = "returned"
         /\ auth_call.version \in {<<2, 2, 1>>, <<2, 3, 0>>}
         /\ Presented(value)) =>
            /\ auth_result.calls = <<value>>
            /\ value \in authenticator.token_c => Accepted
            /\ value \notin authenticator.token_c => Rejected

C17_Witness ==
    /\ auth_call.op = "AuthorizationVerifier"
    /\ auth_call.version = <<2, 3, 0>>
    /\ Presented(<<97, 98, 99>>)
    /\ authenticator.token_c = {<<97, 98, 99>>}
    /\ Accepted
    /\ auth_result.calls = << <<97, 98, 99>> >>

\* C18: a version 2.1.x verifier never decodes: the value is looked up as it
\* is, so a raw Token C is accepted and the Base64 text of a Token C is
\* refused; from 2.2 on the Base64 text of a Token C is accepted.
C18_DecodeByVersion ==
    /\ \A value \in {<<97, 98, 99>>, <<89, 87, 74, 106>>, <<97, 98, 99, 100>>, <<116, 97>>} :
           (/\ auth_pc = "returned"
            /\ auth_call.version = <<2, 1, 1>>
            /\ Presented(value)) =>
               /\ auth_result.calls = <<value>>
               /\ value \in authenticator.token_c => Accepted
               /\ value \notin authenticator.token_c => Rejected
    /\ (/\ auth_pc = "returned"
        /\ auth_call.version \in {<<2, 2, 1>>, <<2, 3, 0>>}
        /\ Presented(<<89, 87, 74, 106>>)
        /\ <<97, 98, 99>> \in authenticator.token_c) =>
           /\ Accepted
           /\ auth_result.calls = << <<97, 98, 99>> >>

C18_Witness ==
    /\ auth_call.op = "HttpPushVerifier"
    /\ auth_call.version = <<2, 1, 1>>
    /\ Presented(<<89, 87, 74, 106>>)
    /\ authenticator.token_c = {<<97, 98, 99>>}
    /\ Rejected
    /\ auth_result.calls = << <<89, 87, 74, 106>> >>

\* The header starts with 'Token '.
HasTokenPrefix(header) ==
    Len(header) >= 6 /\ SubSeq(header, 1, 6) = <<84, 111, 107, 101, 110, 32>>

\* C19: a header without the 'Token ' prefix is refused with
\* AuthorizationOCPIError whatever follows, a valid Token C after the first
\* space included (unless NO_AUTH lets the empty header pass).
C19_MalformedHeaderRejected ==
    (/\ auth_pc = "returned"
     /\ auth_call.op \in HeaderVerifiers
     /\ ~(settings.NO_AUTH /\ auth_call.value = Some(<<>>))
     /\ ~HasTokenPrefix(auth_call.value.value)) =>
        /\ auth_result.returned = "NotReturned"
        /\ auth_result.raised = "AuthorizationOCPIError"

\* C20: a verifier passes a call without asking the authenticator only when
\* NO_AUTH is on and the value is the empty string; with NO_AUTH off the
\* empty value is refused, and with NO_AUTH on a non-empty value is accepted
\* only as a Token C the authenticator was asked about.
C20_NoAuthBypassNarrow ==
    (auth_pc = "returned" /\ auth_call.op \in Verifiers) =>
        /\ (settings.NO_AUTH /\ auth_call.value = Some(<<>>)) =>
               /\ auth_result.returned = "True"
               /\ auth_result.raised = "None"
               /\ auth_result.calls = <<>>
        /\ (~settings.NO_AUTH /\ auth_call.value = Some(<<>>)) => Rejected
        /\ (Accepted /\ auth_call.value # Some(<<>>)) =>
               /\ auth_result.returned = "None"
               /\ Len(auth_result.calls) = 1
               /\ auth_result.calls[1] \in authenticator.token_c
        /\ ~Accepted => Rejected

C20_Witness ==
    /\ settings.NO_AUTH
    /\ auth_call.op = "AuthorizationVerifier"
    /\ auth_call.version = <<2, 1, 1>>
    /\ Presented(<<97, 98, 99>>)
    /\ <<97, 98, 99>> \notin authenticator.token_c
    /\ Rejected
    /\ auth_result.calls = << <<97, 98, 99>> >>

\* ------------------------------------------------- claims on the discovery
DiscoveryOps == {"get_versions", "get_version_details"}

\* The request got the endpoint's data in an OCPIResponse with status 1000.
DiscoveryData ==
    /\ app_response.http = HTTP_200_OK
    /\ app_response.status_code = OCPI_1000_GENERIC_SUCESS_CODE
    /\ app_response.data =
           IF auth_call.op = "get_versions" THEN "versions" ELSE "VersionDetail"

\* An absent header (the default "") or one of white space only.
EmptyHeader == auth_call.value \in {Some(<<>>), Some(<<32>>)}

\* The token that 'Token ' + value presents: "YWJj" is the Base64 of "abc",
\* the other values are no Base64 of a str and stand for themselves.
TokenIn(value) == IF value = <<89, 87, 74, 106>> THEN <<97, 98, 99>> ELSE value
ValidToken(value) ==
    TokenIn(value) \in authenticator.token_c \union authenticator.token_a

\* What C21 says of a request with a token, and of one without a header
\* when the discovery is open to all.
C21_TokenAndOpenCases ==
    /\ (~settings.VERSIONS_REQUIRE_AUTH /\ EmptyHeader) => DiscoveryData
    /\ \A value \in HeaderValues :
         auth_call.value = Some(<<84, 111, 107, 101, 110, 32>> \o value) =>
             IF ValidToken(value) THEN DiscoveryData
             ELSE app_response.http = HTTP_401_UNAUTHORIZED

\* C21 as stated: on /versions and /{version}/details, with
\* VERSIONS_REQUIRE_AUTH off an absent or empty header gets the discovery
\* data; with it on such a request gets HTTP 401; a token that is neither a
\* valid Token A nor a valid Token C gets HTTP 401; a valid one gets the data.
C21_AsStated ==
    (auth_pc = "returned" /\ auth_call.op \in DiscoveryOps) =>
        /\ C21_TokenAndOpenCases
        /\ (settings.VERSIONS_REQUIRE_AUTH /\ EmptyHeader) =>
               app_response.http = HTTP_401_UNAUTHORIZED

\* C21 amended: as stated, except that with VERSIONS_REQUIRE_AUTH on the
\* absent or empty header gets HTTP 401 unless NO_AUTH is on and the header
\* is the empty string, which gets the discovery data.
C21_DiscoveryAuth ==
    (auth_pc = "returned" /\ auth_call.op \in DiscoveryOps) =>
        /\ C21_TokenAndOpenCases
        /\ (settings.VERSIONS_REQUIRE_AUTH /\ EmptyHeader) =>
               IF settings.NO_AUTH /\ auth_call.value = Some(<<>>)
               THEN DiscoveryData
               ELSE app_response.http = HTTP_401_UNAUTHORIZED

C21_Witness ==
    /\ auth_pc = "returned"
    /\ auth_call.op \in DiscoveryOps
    /\ settings.VERSIONS_REQUIRE_AUTH
    /\ ~settings.NO_AUTH
    /\ auth_call.value = Some(<<>>)
    /\ app_response.http = HTTP_401_UNAUTHORIZED

\* Requests answered through the middleware.
MiddlewareOps == DiscoveryOps \union {"request"}

\* C22: an exception raised while a request is handled never leaves the
\* middleware: AuthorizationOCPIError is answered with HTTP 403,
\* NotFoundOCPIError with HTTP 404, ValidationError and every other
\* exception with HTTP 200 and an OCPIResponse of status_code 3000 and
\* empty data.
C22_ExceptionsBecomeResponses ==
    (/\ auth_pc = "returned"
     /\ auth_call.op \in MiddlewareOps
     /\ auth_result.raised # "None") =>
        /\ app_response.escaped = "None"
        /\ auth_result.raised = "AuthorizationOCPIError" =>
               app_response.http = HTTP_403_FORBIDDEN
        /\ auth_result.raised = "NotFoundOCPIError" =>
               app_response.http = HTTP_404_NOT_FOUND
        /\ auth_result.raised \notin {"AuthorizationOCPIError", "NotFoundOCPIError"} =>
               /\ app_response.http = HTTP_200_OK
               /\ app_response.content = "OCPIResponse"
               /\ app_response.status_code = OCPI_3000_GENERIC_SERVER_ERROR
               /\ app_response.data = "[]"

C22_Witness ==
    /\ auth_pc = "returned"
    /\ auth_call.op = "request"
    /\ auth_result.raised = "ConnectError"
    /\ app_response.http = HTTP_200_OK
    /\ app_response.status_code = OCPI_3000_GENERIC_SERVER_ERROR

\* -------------------------------------------- claims on the endpoint directory
AllModules == UNION {ROUTERS(version)[role] : version \in VersionNumbers, role \in RoleEnum}

\* The positions of the version's list that hold an endpoint of the pair.
EndpointsOf(version, role, module) ==
    {j \in 1..Len(version_endpoints[version]) :
         /\ version_endpoints[version][j].identifier = module
         /\ version_endpoints[version][j].url[2] = role}

\* The pair was enabled at startup and the version has a router for it.
EnabledPair(version, role, module) ==
    /\ role \in app_args.roles
    /\ module \in Elements(app_args.modules)
    /\ module \in ROUTERS(version)[role]

\* C23: the directory of a started application holds, for each requested
\* version, exactly one endpoint for every enabled (role, module) pair the
\* version defines, for the roles CPO, EMSP and PTP, and none for any other
\* pair; GET /{version}/details returns that list on every request.
C23_DirectoryOfEnabledPairs ==
    app_pc = "started" =>
        /\ DOMAIN version_endpoints = Elements(app_args.version_numbers)
        /\ \A version \in DOMAIN version_endpoints, role \in RoleEnum, module \in AllModules :
             Cardinality(EndpointsOf(version, role, module)) =
                 IF EnabledPair(version, role, module) THEN 1 ELSE 0
        /\ \A list \in served : list = version_endpoints[<<2, 3, 0>>]

\* The same for the roles CPO and EMSP alone.
C23_DirectoryOfCpoEmspPairs ==
    app_pc = "started" =>
        /\ DOMAIN version_endpoints = Elements(app_args.version_numbers)
        /\ \A version \in DOMAIN version_endpoints, role \in {"cpo", "emsp"},
              module \in AllModules :
             Cardinality(EndpointsOf(version, role, module)) =
                 IF EnabledPair(version, role, module) THEN 1 ELSE 0
        /\ \A list \in served : list = version_endpoints[<<2, 3, 0>>]

C25_TokenFetchedAfterLoop ==
    \A c \in Cmds :
        /\ client_auth_token[c] # "None" => LoopEnded(c)
        /\ post_calls(c) > 0 => client_auth_token[c] # "None"

\* C26: a failed POST to response_url (a status that is not 2xx, or a
\* transport error) is only logged: the POST is not repeated, no poll
\* follows it and the failure does not leave the background task.
C26_DeliveryFireAndForget ==
    /\ [](\A c \in Cmds : /\ post_calls(c) <= 1
                          /\ pc[c] # "failed")
    /\ [][\A c \in Cmds : post_calls(c) = 1 =>
              /\ poll_calls'[c] = poll_calls[c]
              /\ sleep_calls'[c] = sleep_calls[c]
              /\ posted'[c] = posted[c]]_vars

\* C27: when the k-th poll attempt is the first with a non-empty result,
\* exactly k calls of crud.get are made and k - 1 sleeps, one after each
\* attempt before the k-th; nothing is polled or slept afterwards, and the
\* result POSTed is the adapter's conversion of that result, never TIMEOUT.
C27_PollingStopsAtFirstResult ==
    /\ [](\A c \in Cmds :
            /\ pc[c] = "poll" => sleep_calls[c] = poll_calls[c]
            /\ pc[c] = "sleep" => sleep_calls[c] = poll_calls[c] - 1
            /\ Truthy(command_result[c]) =>
                   /\ LoopEnded(c)
                   /\ poll_calls[c] \in 1..(30 * COMMAND_AWAIT_TIME)
                   /\ sleep_calls[c] = poll_calls[c] - 1
                   /\ \A j \in 1..Len(posted[c]) :
                        /\ posted[c][j].result = command_response_adapter(command_result[c])
                        /\ posted[c][j].result # "TIMEOUT")
    /\ [][\A c \in Cmds : Truthy(command_result[c]) =>
              /\ command_result'[c] = command_result[c]
              /\ poll_calls'[c] = poll_calls[c]
              /\ sleep_calls'[c] = sleep_calls[c]]_vars

C27_Witness ==
    \E c \in Cmds :
        /\ pc[c] = "done"
        /\ command_result[c] = "FAILED"
        /\ poll_calls[c] = 3
        /\ sleep_calls[c] = 2
        /\ posted[c] = <<[result |-> "FAILED", authorization |-> <<"Token ", "client_token">>]>>

Stage(q) ==
    CASE requests[q].kind = "GET" -> 1
      [] requests[q].kind = "crud.get" -> 2
      [] OTHER -> 3

\* C29: the receivers are processed one after another in the order of
\* push.receivers: every discovery request, storage read and data request of
\* a receiver precedes every request of the next one, in this order; and
\* when the push returns, receiver_responses has one entry per receiver, in
\* that order, with the receiver's endpoints_url and the status of its one
\* data request.
C29_ReceiversInOrder ==
    /\ \A q1, q2 \in 1..Len(requests) :
         q1 < q2 =>
             \/ requests[q1].receiver < requests[q2].receiver
             \/ /\ requests[q1].receiver = requests[q2].receiver
                /\ Stage(q1) <= Stage(q2)
    /\ \A q \in 1..Len(requests) : requests[q].receiver \in 1..(k + 1)
    /\ push_pc = "returned" =>
           /\ Len(receiver_responses) = push_args.n
           /\ \A r \in 1..push_args.n :
                /\ receiver_responses[r].endpoints_url = r
                /\ receiver_responses[r].status_code \in
                       {o.status_code : o \in {d \in DataOutcomes : d.kind = "Response"}}
                /\ Len(DataRequestsOf(r)) = 1
                /\ Len(GetsOf(r)) >= 1

C29_Witness ==
    /\ push_pc = "returned"
    /\ push_args.n = 2
    /\ push_args.crud
    /\ Len(receiver_responses) = 2
    /\ receiver_responses[2].endpoints_url = 2
    /\ Len(ReadsOf(1)) = 1
    /\ Len(ReadsOf(2)) = 1

\* ------------------------------------------ claims on the decoded token
\* C30: from version 2.2 on, a header value that decodes to text is looked
\* up as the decoded text alone, in one lookup: "Token YWJj" is accepted
\* exactly when "abc" is a Token C, also when "YWJj" itself is one.
C30_DecodedValueOnly ==
    (/\ auth_pc = "returned"
     /\ auth_call.op \in HeaderVerifiers
     /\ auth_call.version \in {<<2, 2, 1>>, <<2, 3, 0>>}) =>
        /\ (\E value \in HeaderValues : Presented(value)) => Len(auth_result.calls) = 1
        /\ Presented(<<89, 87, 74, 106>>) =>
               /\ auth_result.calls = << <<97, 98, 99>> >>
               /\ <<97, 98, 99>> \in authenticator.token_c => Accepted
               /\ <<97, 98, 99>> \notin authenticator.token_c => Rejected

C30_Witness ==
    /\ auth_pc = "returned"
    /\ auth_call.op = "HttpPushVerifier"
    /\ auth_call.version = <<2, 2, 1>>
    /\ Presented(<<89, 87, 74, 106>>)
    /\ authenticator.token_c = {<<89, 87, 74, 106>>}
    /\ Rejected
    /\ auth_result.calls = << <<97, 98, 99>> >>

====
